---------------------------- MODULE Spec2Model ----------------------------
(***************************************************************************)
(* TradeSafe arbitrage pipeline: the opportunity detector, the capital     *)
(* allocator, the debate (median consensus) engine, the Guardian, the      *)
(* execution engine and the polling runner.                                *)
(*                                                                         *)
(* Numbers.  The program computes in IEEE-754 doubles.  The model computes *)
(* in integers:                                                            *)
(*   - money is an integer number of money units, a product with a         *)
(*     percentage is rounded down to a whole unit;                         *)
(*   - a perspective score s in [0,1] is the integer s * ScoreOne;         *)
(*   - a percentage with two decimals (spreadPct) is the integer pct*100;  *)
(*   - a price is an integer number of tenths of a money unit, a quantity  *)
(*     an integer number of hundredths of a unit, so that price * quantity *)
(*     is in thousandths of a money unit;                                  *)
(*   - x / 0 follows IEEE-754: 0/0 is NaN and every comparison with NaN is *)
(*     false, a/0 is +Infinity or -Infinity by the sign of a.              *)
(***************************************************************************)
EXTENDS Integers, Sequences, FiniteSets, TLC

VARIABLES
    dbIn,       \* debate harness: the arguments of the next debate call
    dbOut,      \* debate harness: the result of the last debate call
    alIn,       \* allocator harness: the arguments of the next call
    alOut,      \* allocator harness: the result of the last call
    rkOut,      \* risk harness: the last assessRisk call and its result
    stOut,      \* state file harness: the last save and load of a state
    acOut,      \* allocation harness: the last allocateCapital call and its result
    priceHistory,       \* price discovery's rolling window: symbol -> prices
    arrivals,   \* history: every Binance price of a symbol, in arrival order
    dsOut,      \* discovery harness: the last discoverPrices call and its result
    now,        \* Date.now(), in milliseconds
    persistenceBuffer,  \* the detector's buffer: key -> OpportunityPersistence
    detOut,     \* detector harness: the last detectArbitrage call and its result
    detSeen,    \* history: seenKeys of the last detectArbitrage call
    today,      \* the calendar day of new Date().toDateString(), as a day number
    portfolio,  \* GlobalState.portfolio: cash, totalValue
    auditLog,   \* GlobalState.auditLog
    executionLog,       \* GlobalState.executionLog
    guardianSettings,   \* GlobalState.guardianSettings
    apiExec,    \* the POST /api/arbitrage/execute request in flight
    netProfits, \* history: the sum of netProfit over the successful executions
    gdOut,      \* Guardian harness: the last guardianCheck call and its result
    runner,     \* GlobalState.runner
    runnerInterval,     \* the module variable: TRUE when an interval timer is set
    nextFire,   \* when the interval timer fires next
    polls,      \* the pollOnce invocations: where each stands, and its locals
    gate,       \* history: the Guardian result and the debate decision of the
                \* opportunity a poll has just decided on
    disk,       \* the file system under data/state.json: which writes fail
    stateFile,  \* data/state.json: the document of the last save that succeeded
    ret         \* history: what the last start, stop or execution returned

detVars == <<now, persistenceBuffer, detOut, detSeen>>
histVars == <<priceHistory, arrivals, dsOut>>
pureVars == <<dbIn, dbOut, alIn, alOut, rkOut, stOut, acOut, priceHistory, arrivals, dsOut>>
storeVars == <<portfolio, auditLog, executionLog, guardianSettings>>
runnerVars == <<runner, runnerInterval, nextFire, polls, gate>>
worldVars == <<today, portfolio, auditLog, executionLog, guardianSettings,
               apiExec, netProfits, gdOut, runner, runnerInterval, nextFire,
               polls, gate, disk, stateFile, ret>>
vars == <<dbIn, dbOut, alIn, alOut, rkOut, stOut, acOut, priceHistory, arrivals, dsOut, now, persistenceBuffer, detOut, detSeen, today,
          portfolio, auditLog, executionLog, guardianSettings, apiExec,
          netProfits, gdOut, runner, runnerInterval, nextFire, polls, gate,
          disk, stateFile, ret>>

Min(a, b) == IF a <= b THEN a ELSE b
Max(a, b) == IF a >= b THEN a ELSE b
Abs(a) == IF a < 0 THEN -a ELSE a

\* The value standing for "no result yet" in a harness.
NoResult == [kind |-> "none"]

(***************************************************************************)
(* Debate engine (src/lib/agents/debateAgent.ts)                           *)
(***************************************************************************)

\* A score of 1.0.  3000 makes spreadPct/3 and 0.3 * riskScore/100 exact.
ScoreOne == 3000

\* Math.max(0, Math.min(1, x))
Clamp01(x) == Max(0, Min(ScoreOne, x))

\* Array.prototype.sort((a, b) => a - b): ascending insertion sort.
RECURSIVE InsertAsc(_, _)
InsertAsc(x, s) ==
    IF s = <<>> THEN <<x>>
    ELSE IF x <= Head(s) THEN <<x>> \o s
    ELSE <<Head(s)>> \o InsertAsc(x, Tail(s))

RECURSIVE SortAsc(_)
SortAsc(s) == IF s = <<>> THEN <<>> ELSE InsertAsc(Head(s), SortAsc(Tail(s)))

\* scores = [bullish, 1 - bearish, neutral]; scores.sort(); scores[1]
ScoresTakeFirst(bull, bear, neut) == SortAsc(<<bull, ScoreOne - bear, neut>>)[1]
ConsensusScore(bull, bear, neut) == SortAsc(<<bull, ScoreOne - bear, neut>>)[2]

\* finalDecisionScore >= executeConfidenceThreshold ? 'execute' : 'wait'
DecideStrict(score, t) == IF score > t THEN "execute" ELSE "wait"
Decide(score, t) == IF score >= t THEN "execute" ELSE "wait"

\* The DebateResult built from three clamped scores.
DebateResult(bull, bear, neut, t, raw) ==
    [kind |-> "ok", bullish |-> bull, bearish |-> bear, neutral |-> neut,
     finalDecisionScore |-> ConsensusScore(bull, bear, neut),
     decision |-> Decide(ConsensusScore(bull, bear, neut), t),
     raw |-> raw]

\* fallbackDebateResult(o, r, a, t).  o.spreadPct.toFixed and
\* r.slippagePct.toFixed throw a TypeError when the field is not a number
\* (wellFormed = FALSE).
FallbackBullish(spreadPct100, riskScore) ==
    Clamp01(Min(ScoreOne, spreadPct100 * 10) - riskScore * 9)
FallbackBearish(riskScore) == Clamp01(riskScore * 30)
FallbackNeutral == ScoreOne \div 2

FallbackDebateResult(in) ==
    IF ~in.wellFormed THEN [kind |-> "throw"]
    ELSE DebateResult(FallbackBullish(in.spreadPct100, in.riskScore),
                      FallbackBearish(in.riskScore),
                      FallbackNeutral, in.threshold, "Fallback")

\* parsed.<p>.score || 0, clamped: a missing score counts as 0.
ParsedScore(p) == IF p.hasScore THEN Clamp01(p.score) ELSE 0

\* debateWithMedianConsensus(opportunity, risk, allocation, threshold).
\* in.provider is what the perspective provider does on this call:
\*   "none"        no client (GROQ_API_KEY not set)
\*   "error"       client.chat.completions.create rejects
\*   "unparseable" the reply is not JSON
\*   "json"        the reply parses; in.reply holds bullish/bearish/neutral,
\*                 each [present, hasScore, score]: parsed.<p> is there or
\*                 not, and parsed.<p>.score is there or not
DebateWithMedianConsensus(in) ==
    IF in.provider = "none" THEN FallbackDebateResult(in)
    ELSE IF in.provider \in {"error", "unparseable"} THEN FallbackDebateResult(in)
    ELSE IF \E p \in {"bullish", "bearish", "neutral"} : ~in.reply[p].present
         THEN FallbackDebateResult(in)       \* TypeError caught at line 468
    ELSE DebateResult(ParsedScore(in.reply.bullish),
                      ParsedScore(in.reply.bearish),
                      ParsedScore(in.reply.neutral), in.threshold, "provider")

(***************************************************************************)
(* Capital allocator (src/lib/agents/capitalAllocation.ts)                 *)
(***************************************************************************)

\* The risk band's allocation percentage (0.02, 0.05, 0.10, 0.15) * 100.
AllocationPct(riskScore) ==
    IF riskScore > 80 THEN 2
    ELSE IF riskScore >= 60 THEN 5
    ELSE IF riskScore >= 30 THEN 10
    ELSE 15

\* portfolio.usdtBalance * allocationPct
PotentialAllocation(usdtBalance, pct) == (usdtBalance * pct) \div 100

\* Math.min(potentialAllocation, portfolio.maxTradeAmount)
AllocatedUncapped(potential, maxTradeAmount) == potential
AllocatedUSDT(potential, maxTradeAmount) == Min(potential, maxTradeAmount)

\* allocateCapitalForOpportunity(opportunity, risk, portfolio).  riskShape is
\* FALSE when risk.liquidityEstimate is missing: line 369 then throws and
\* the catch returns the zero allocation.
AllocateCapitalForOpportunity(riskScore, riskShape, usdtBalance, maxTradeAmount) ==
    IF ~riskShape THEN [allocationPct |-> 0, allocatedUSDT |-> 0, caught |-> TRUE]
    ELSE [allocationPct |-> AllocationPct(riskScore),
          allocatedUSDT |->
              AllocatedUSDT(PotentialAllocation(usdtBalance, AllocationPct(riskScore)),
                            maxTradeAmount),
          caught |-> FALSE]

(***************************************************************************)
(* Opportunity detector (src/lib/arbitrage/spread.ts, lines 101-247)       *)
(***************************************************************************)

Symbols == {"BTCUSDT", "ETHUSDT"}
Actions == {"buy-binance-sell-india", "buy-india-sell-binance"}

\* opportunityKey = `${symbol}_${action}`
OpportunityKey(symbol, action) == <<symbol, action>>
Keys == {OpportunityKey(sym, a) : sym \in Symbols, a \in Actions}

\* A key that is not in the Map.
NoOpportunity ==
    [symbol |-> "", action |-> "", spreadPct100 |-> 0,
     estimatedGrossProfitPct100 |-> 0, binancePrice |-> 0, indianPrice |-> 0,
     firstSeenTs |-> 0, lastSeenTs |-> 0, persistenceCount |-> 0]
NoPersistence ==
    [present |-> FALSE, firstSeenTs |-> 0, lastSeenTs |-> 0,
     persistenceCount |-> 0, data |-> NoOpportunity]

EmptyBuffer == [k \in Keys |-> NoPersistence]

\* if (currentTime - persistence.lastSeenTs > 10000)
StaleTimeoutMs == 10000

\* Math.abs(spreadPct) - 0.3, in hundredths of a percent
FeeBufferPct100 == 30

\* ((indianPrice - binancePrice) / binancePrice) * 100: its sign, and its
\* absolute value in hundredths of a percent.
SpreadPositive(p) == p.indianPrice - p.binancePrice > 0
AbsSpreadPct100(p) == (Abs(p.indianPrice - p.binancePrice) * 10000) \div p.binancePrice

\* Math.abs(spreadPct) < minSpreadPct, decided exactly
NeverBelowMinSpread(p, minSpreadPct100) == FALSE
BelowMinSpread(p, minSpreadPct100) ==
    Abs(p.indianPrice - p.binancePrice) * 10000 < minSpreadPct100 * p.binancePrice

\* spreadPct > 0 ? 'buy-binance-sell-india' : 'buy-india-sell-binance'
ActionOf(p) ==
    IF SpreadPositive(p) THEN "buy-binance-sell-india" ELSE "buy-india-sell-binance"

\* persistence.persistenceCount += 1
CountedTwice(persistenceCount) == persistenceCount + 2
Counted(persistenceCount) == persistenceCount + 1

\* The buffer entry after this observation (lines 184-219).
Observed(old, p, currentTime) ==
    IF old.present
    THEN [old EXCEPT
            !.lastSeenTs = currentTime,
            !.persistenceCount = Counted(old.persistenceCount),
            !.data = [old.data EXCEPT
                        !.spreadPct100 = AbsSpreadPct100(p),
                        !.estimatedGrossProfitPct100 =
                            AbsSpreadPct100(p) - FeeBufferPct100,
                        !.binancePrice = p.binancePrice,
                        !.indianPrice = p.indianPrice,
                        !.lastSeenTs = currentTime,
                        !.persistenceCount = Counted(old.persistenceCount)]]
    ELSE [present |-> TRUE, firstSeenTs |-> currentTime, lastSeenTs |-> currentTime,
          persistenceCount |-> 1,
          data |-> [symbol |-> p.symbol, action |-> ActionOf(p),
                    spreadPct100 |-> AbsSpreadPct100(p),
                    estimatedGrossProfitPct100 |-> AbsSpreadPct100(p) - FeeBufferPct100,
                    binancePrice |-> p.binancePrice, indianPrice |-> p.indianPrice,
                    firstSeenTs |-> currentTime, lastSeenTs |-> currentTime,
                    persistenceCount |-> 1]]

\* meetsCountCriteria || meetsTimeCriteria (lines 221-226)
EmitAlways(pers, opts, currentTime) == TRUE
MeetsPersistence(pers, opts, currentTime) ==
    \/ pers.persistenceCount >= opts.minPersistenceCount
    \/ currentTime - pers.firstSeenTs >= opts.persistenceMs

\* One iteration of `for (const priceData of prices)`; st = [buf, opps, seen].
DetectOne(st, p, opts, currentTime) ==
    IF p.binancePrice = 0 \/ p.indianPrice = 0 THEN st
    ELSE IF BelowMinSpread(p, opts.minSpreadPct100) THEN st
    ELSE LET key == OpportunityKey(p.symbol, ActionOf(p))
             pers == Observed(st.buf[key], p, currentTime)
         IN [buf |-> [st.buf EXCEPT ![key] = pers],
             seen |-> st.seen \cup {key},
             opps |-> IF MeetsPersistence(pers, opts, currentTime)
                      THEN Append(st.opps, pers.data) ELSE st.opps]

RECURSIVE DetectLoop(_, _, _, _)
DetectLoop(st, prices, opts, currentTime) ==
    IF prices = <<>> THEN st
    ELSE DetectLoop(DetectOne(st, Head(prices), opts, currentTime),
                    Tail(prices), opts, currentTime)

\* Lines 231-240: staleKeys, the keys not seen in this call and last seen
\* more than StaleTimeoutMs ago.
StaleKeys(buf, seen, currentTime) ==
    {k \in Keys : /\ buf[k].present
                  /\ k \notin seen
                  /\ currentTime - buf[k].lastSeenTs > StaleTimeoutMs}

\* Line 241: staleKeys.forEach(key => persistenceBuffer.delete(key))
KeepStale(buf, seen, currentTime) == buf
CleanStale(buf, seen, currentTime) ==
    [k \in Keys |->
        IF k \in StaleKeys(buf, seen, currentTime) THEN NoPersistence ELSE buf[k]]

\* opportunities.sort((a, b) => b.estimatedGrossProfitPct - a.estimatedGrossProfitPct):
\* a stable sort, descending.
RECURSIVE InsertByProfit(_, _)
InsertByProfit(o, s) ==
    IF s = <<>> THEN <<o>>
    ELSE IF o.estimatedGrossProfitPct100 > Head(s).estimatedGrossProfitPct100
         THEN <<o>> \o s
    ELSE <<Head(s)>> \o InsertByProfit(o, Tail(s))

RECURSIVE SortByProfit(_)
SortByProfit(s) ==
    IF s = <<>> THEN <<>>
    ELSE InsertByProfit(s[Len(s)], SortByProfit(SubSeq(s, 1, Len(s) - 1)))

\* detectArbitrage(prices, opts) at time currentTime on buffer buf: the new
\* buffer and the returned opportunities.
DetectArbitrage(buf, prices, opts, currentTime) ==
    LET st == DetectLoop([buf |-> buf, opps |-> <<>>, seen |-> {}],
                         prices, opts, currentTime)
    IN [buffer |-> CleanStale(st.buf, st.seen, currentTime),
        seenKeys |-> st.seen,
        staleKeys |-> StaleKeys(st.buf, st.seen, currentTime),
        opportunities |-> SortByProfit(st.opps)]

(***************************************************************************)
(* Global state (src/lib/state/store.ts lines 71-242, portfolio.ts,        *)
(* auditLog.ts, executionLog.ts)                                           *)
(***************************************************************************)

\* DEFAULT_STATE.portfolio
DefaultCash == 100000
DefaultPortfolio == [cash |-> DefaultCash, totalValue |-> DefaultCash]

\* DEFAULT_STATE.guardianSettings: maxTradePctOfPortfolio 0.15 and
\* globalMaxExposurePct 0.5 are held in percent.
DefaultGuardianSettings ==
    [maxTradePctOfPortfolio |-> 15, dailyMaxTrades |-> 30,
     globalMaxExposurePct |-> 50, highVolatility |-> TRUE]

\* addAuditLog(entry): the entry gets its timestamp (here its day) and is
\* pushed at the end.  ref is the executionId in entry.details, or 0.
AuditEntry(action, ref, day) == [action |-> action, ref |-> ref, day |-> day]
AddAuditLog(log, action, ref, day) == Append(log, AuditEntry(action, ref, day))

\* updatePortfolio({cash, totalValue}): the current portfolio with the
\* updates spread over it.
UpdatePortfolio(pf, cash, totalValue) ==
    [pf EXCEPT !.cash = cash, !.totalValue = totalValue]

\* addExecutionRecord(record)
AddExecutionRecord(log, record) == Append(log, record)

\* updateExecutionRecord(id, updates): the first record with this id.
UpdateExecutionRecord(log, id, status, profit, partialFill) ==
    IF \E i \in 1..Len(log) : log[i].id = id
    THEN LET i == CHOOSE j \in 1..Len(log) :
                    log[j].id = id /\ \A k \in 1..(j - 1) : log[k].id # id
         IN [log EXCEPT ![i] = [@ EXCEPT !.status = status, !.profit = profit,
                                         !.partialFill = partialFill]]
    ELSE log

\* The file system takes every write.
DiskOk == [left |-> -1, once |-> FALSE]

\* The in-memory GlobalState a handler works on, with the disk under it;
\* ok is FALSE once a write has thrown and the handler is unwinding.
StoreOf(rn, pf, log, elog, d, f) ==
    [runner |-> rn, portfolio |-> pf, auditLog |-> log, executionLog |-> elog,
     disk |-> d, file |-> f, ok |-> TRUE]

\* JSON.stringify(state, null, 2): the document saveState writes
Document(st) ==
    [runner |-> st.runner, portfolio |-> st.portfolio, auditLog |-> st.auditLog,
     executionLog |-> st.executionLog]

\* saveState(state): writeFileSync to the temporary file and renameSync over
\* data/state.json, the error rethrown.  The disk takes disk.left more writes
\* (all of them when negative), then fails one write (disk.once) or every
\* write; a write that fails leaves data/state.json as it was.
SaveState(st) ==
    IF st.disk.left = 0
    THEN [st EXCEPT !.ok = FALSE,
                    !.disk = IF st.disk.once THEN DiskOk ELSE st.disk]
    ELSE IF st.disk.left > 0
         THEN [st EXCEPT !.disk = [@ EXCEPT !.left = @ - 1], !.file = Document(st)]
         ELSE [st EXCEPT !.file = Document(st)]

\* updateState(key, value) by its callers: state[key] is assigned, then
\* saveState runs; nothing runs while an error unwinds.
WriteRunner(st, rn) ==
    IF st.ok THEN SaveState([st EXCEPT !.runner = rn]) ELSE st

WriteAuditLog(st, action, ref, day) ==
    IF st.ok
    THEN SaveState([st EXCEPT !.auditLog = AddAuditLog(@, action, ref, day)])
    ELSE st

WriteExecutionRecord(st, record) ==
    IF st.ok
    THEN SaveState([st EXCEPT !.executionLog = AddExecutionRecord(@, record)])
    ELSE st

\* updateExecutionRecord writes only when it found the record.
WriteExecutionUpdate(st, id, status, profit, partialFill) ==
    IF st.ok /\ \E i \in 1..Len(st.executionLog) : st.executionLog[i].id = id
    THEN SaveState([st EXCEPT !.executionLog =
                       UpdateExecutionRecord(@, id, status, profit, partialFill)])
    ELSE st

WritePortfolio(st, cash, totalValue) ==
    IF st.ok
    THEN SaveState([st EXCEPT !.portfolio = UpdatePortfolio(@, cash, totalValue)])
    ELSE st

\* clearAuditLog(): updateState('auditLog', [])
ClearAuditLog(st) ==
    IF st.ok THEN SaveState([st EXCEPT !.auditLog = <<>>]) ELSE st

\* A catch block has the error: the handler runs again.
Caught(st) == [st EXCEPT !.ok = TRUE]

(***************************************************************************)
(* The state file (src/lib/state/store.ts lines 29-62)                     *)
(***************************************************************************)

\* The number NaN, which money takes when a price of 0 or a missing price
\* is divided by, and the null of JSON; both outside the range of money.
NotANumber == -2000000001
JsonNull == -2000000002

\* JSON.stringify of a number and JSON.parse of the result: NaN is written
\* as null, every finite number as itself.
JsonNumber(x) == IF x = NotANumber THEN JsonNull ELSE x

\* The same of a Portfolio with its positions.
JsonPortfolio(pf) ==
    [cash |-> JsonNumber(pf.cash),
     positions |-> [i \in DOMAIN pf.positions |->
                       [symbol |-> pf.positions[i].symbol,
                        quantity |-> JsonNumber(pf.positions[i].quantity)]],
     totalValue |-> JsonNumber(pf.totalValue),
     lastUpdate |-> JsonNumber(pf.lastUpdate)]

\* saveState(state), of a state with a portfolio and the number of its audit
\* entries: what JSON.parse reads back from the file it wrote.
SavedFile(state) ==
    [portfolio |-> JsonPortfolio(state.portfolio), auditLog |-> state.auditLog]

\* loadState(defaultState) on a file: { ...defaultState, ...parsedState }
LoadState(defaultState, file) ==
    [k \in DOMAIN defaultState \cup DOMAIN file |->
        IF k \in DOMAIN file THEN file[k] ELSE defaultState[k]]

(***************************************************************************)
(* IEEE-754 quotients compared with a fraction num/den, den > 0            *)
(***************************************************************************)

\* a / b > num / den
QuotientGT(a, b, num, den) ==
    IF b > 0 THEN a * den > num * b
    ELSE IF b < 0 THEN a * den < num * b
    ELSE a > 0                      \* +Infinity; -Infinity and NaN compare false

\* a / b < num / den
QuotientLT(a, b, num, den) ==
    IF b > 0 THEN a * den < num * b
    ELSE IF b < 0 THEN a * den > num * b
    ELSE a < 0                      \* -Infinity; +Infinity and NaN compare false

\* a / b <= num / den
QuotientLE(a, b, num, den) ==
    IF b > 0 THEN a * den <= num * b
    ELSE IF b < 0 THEN a * den >= num * b
    ELSE a < 0

\* a / b >= num / den
QuotientGE(a, b, num, den) ==
    IF b > 0 THEN a * den >= num * b
    ELSE IF b < 0 THEN a * den <= num * b
    ELSE a > 0

(***************************************************************************)
(* Guardian (runner, src/unnamed/part_001 lines 25-85)                     *)
(***************************************************************************)

\* Check 1: allocation.allocatedUSDT / portfolio.totalValue >
\* config.maxTradePctOfPortfolio
TradeSizeExceeds(allocatedUSDT, pf, config) ==
    QuotientGT(allocatedUSDT, pf.totalValue, config.maxTradePctOfPortfolio, 100)

\* Check 2: the audit entries of today with action 'execution_completed'
TodayLogs(log, day) ==
    {i \in 1..Len(log) : log[i].day = day /\ log[i].action = "execution_completed"}
DailyLimitOffByOne(log, day, config) ==
    Cardinality(TodayLogs(log, day)) > config.dailyMaxTrades
DailyLimitReached(log, day, config) ==
    Cardinality(TodayLogs(log, day)) >= config.dailyMaxTrades

\* Check 3: (totalValue - cash) / totalValue > globalMaxExposurePct, a warning
HighExposure(pf, config) ==
    QuotientGT(pf.totalValue - pf.cash, pf.totalValue, config.globalMaxExposurePct, 100)

\* guardianCheck with the threshold of check 5 at the fail-safe score
GuardianCheckAbove80(risk, allocatedUSDT, config, pf, log, day) ==
    IF TradeSizeExceeds(allocatedUSDT, pf, config)
    THEN [pass |-> FALSE, reason |-> "trade_size", warning |-> FALSE]
    ELSE IF DailyLimitReached(log, day, config)
    THEN [pass |-> FALSE, reason |-> "daily_limit", warning |-> FALSE]
    ELSE IF config.highVolatility /\ risk.volatilityPct100 > 200
    THEN [pass |-> FALSE, reason |-> "volatility", warning |-> HighExposure(pf, config)]
    ELSE IF risk.riskScore > 80
    THEN [pass |-> FALSE, reason |-> "risk_score", warning |-> HighExposure(pf, config)]
    ELSE [pass |-> TRUE, reason |-> "", warning |-> HighExposure(pf, config)]

\* guardianCheck with check 5 made before check 4
GuardianCheckRiskFirst(risk, allocatedUSDT, config, pf, log, day) ==
    IF TradeSizeExceeds(allocatedUSDT, pf, config)
    THEN [pass |-> FALSE, reason |-> "trade_size", warning |-> FALSE]
    ELSE IF DailyLimitReached(log, day, config)
    THEN [pass |-> FALSE, reason |-> "daily_limit", warning |-> FALSE]
    ELSE IF risk.riskScore > 75
    THEN [pass |-> FALSE, reason |-> "risk_score", warning |-> HighExposure(pf, config)]
    ELSE IF config.highVolatility /\ risk.volatilityPct100 > 200
    THEN [pass |-> FALSE, reason |-> "volatility", warning |-> HighExposure(pf, config)]
    ELSE [pass |-> TRUE, reason |-> "", warning |-> HighExposure(pf, config)]

\* guardianCheck(opportunity, risk, allocation, guardianConfig), reading the
\* portfolio and the audit log.  risk.volatilityPct is in hundredths of a
\* percent.
GuardianCheck(risk, allocatedUSDT, config, pf, log, day) ==
    IF TradeSizeExceeds(allocatedUSDT, pf, config)
    THEN [pass |-> FALSE, reason |-> "trade_size", warning |-> FALSE]
    ELSE IF DailyLimitReached(log, day, config)
    THEN [pass |-> FALSE, reason |-> "daily_limit", warning |-> FALSE]
    ELSE IF config.highVolatility /\ risk.volatilityPct100 > 200
    THEN [pass |-> FALSE, reason |-> "volatility", warning |-> HighExposure(pf, config)]
    ELSE IF risk.riskScore > 75
    THEN [pass |-> FALSE, reason |-> "risk_score", warning |-> HighExposure(pf, config)]
    ELSE [pass |-> TRUE, reason |-> "", warning |-> HighExposure(pf, config)]

(***************************************************************************)
(* Execution engine (src/unnamed/part_002 lines 417-602)                   *)
(* Prices are in tenths of a money unit and quantities in hundredths of a   *)
(* unit: a value price * quantity is in thousandths of a money unit.       *)
(***************************************************************************)

\* Lines 492-505: walk the asks [price, qty] while quantity remains.
RECURSIVE FillWalk(_, _, _, _)
FillWalk(asks, remainingQty, totalSellValue, filledQty) ==
    IF asks = <<>> \/ remainingQty <= 0
    THEN [totalSellValue |-> totalSellValue, filledQty |-> filledQty]
    ELSE LET fillQty == Min(remainingQty, Head(asks)[2]) IN
         FillWalk(Tail(asks), remainingQty - fillQty,
                  totalSellValue + Head(asks)[1] * fillQty, filledQty + fillQty)

\* Lines 458-487, up to `await getIndianOrderBook`: the quantity and the
\* simulated buy.  slipBps is buySlippage in hundredths of a percent;
\* allocatedUSDT / binancePrice, in hundredths of a unit, is
\* allocatedUSDT * 1000 over the price in tenths.
ExecutionBegin(opportunity, allocatedUSDT, slipBps, executionId) ==
    LET buyQty == (allocatedUSDT * 1000) \div opportunity.binancePrice
        buyPrice == opportunity.binancePrice
                    + (opportunity.binancePrice * slipBps) \div 10000
    IN [executionId |-> executionId, symbol |-> opportunity.symbol,
        opportunity |-> opportunity,
        buyQty |-> buyQty, buyPrice |-> buyPrice,
        buyFees |-> (buyPrice * buyQty) \div 1000]

\* The ExecutionRecord added at line 477.
ExecutingRecord(ex) ==
    [id |-> ex.executionId, symbol |-> ex.symbol, status |-> "executing",
     buyExchange |-> "binance_testnet", sellExchange |-> "indian_mock",
     profit |-> 0, partialFill |-> FALSE]

\* Line 522: if (fillRatio < 0.9), fillRatio being filledQty / buyQty.
RollbackBelowHalf(filledQty, buyQty) == QuotientLT(filledQty, buyQty, 5, 10)
RollbackNeeded(filledQty, buyQty) == QuotientLT(filledQty, buyQty, 9, 10)

\* Lines 492-543: the fill, its ratio and the net profit, from the asks.
ExecutionFill(ex, asks) ==
    LET w == FillWalk(asks, ex.buyQty, 0, 0)
        avgSellPrice == IF w.filledQty > 0 THEN w.totalSellValue \div w.filledQty ELSE 0
        buyCost == ex.buyPrice * ex.buyQty + ex.buyFees
        sellRevenue == avgSellPrice * w.filledQty
        sellFees == (sellRevenue * 2) \div 1000
    IN [filledQty |-> w.filledQty, avgSellPrice |-> avgSellPrice,
        partialFill |-> QuotientLT(w.filledQty, ex.buyQty, 1, 1),
        rollback |-> RollbackNeeded(w.filledQty, ex.buyQty),
        netProfit |-> (sellRevenue - sellFees - buyCost) \div 1000]

\* Lines 582-601, the catch block: the execution_failed entry, then the
\* failure is returned; an error of that write leaves the engine.
ExecutionCatch(st, ex, day) ==
    LET c == WriteAuditLog(Caught(st), "execution_failed", ex.executionId, day)
    IN [st |-> Caught(c), outcome |-> IF c.ok THEN "failure" ELSE "throw",
        filledQty |-> 0, partialFill |-> FALSE, rollback |-> FALSE,
        netProfit |-> 0]

\* Lines 458-489 on the store: the buy_order_placed entry and the executing
\* record, up to the await of the order book.
ExecutionStart(st, ex, day) ==
    LET placed == WriteAuditLog(st, "buy_order_placed", 0, day)
        recorded == WriteExecutionRecord(placed, ExecutingRecord(ex))
    IN IF recorded.ok
       THEN [st |-> recorded, outcome |-> "await", filledQty |-> 0,
             partialFill |-> FALSE, rollback |-> FALSE, netProfit |-> 0]
       ELSE ExecutionCatch(recorded, ex, day)

\* Lines 492-602 after the order book arrived (book.ok) or the request for it
\* threw: what the engine leaves in the store, and what it returns.
ExecutionEnd(st, ex, book, day) ==
    IF ~book.ok
    THEN ExecutionCatch(st, ex, day)
    ELSE LET f == ExecutionFill(ex, book.asks)
             sold == WriteAuditLog(st, "sell_simulated", 0, day)
             rolled == IF f.rollback
                       THEN WriteAuditLog(sold, "rollback_triggered", 0, day)
                       ELSE sold
             updated == WriteExecutionUpdate(rolled, ex.executionId, "completed",
                                             f.netProfit, f.partialFill)
             paid == WritePortfolio(updated,
                                    updated.portfolio.cash + f.netProfit,
                                    updated.portfolio.totalValue + f.netProfit)
             completed == WriteAuditLog(paid, "execution_completed",
                                        ex.executionId, day)
         IN IF completed.ok
            THEN [st |-> completed, outcome |-> "success",
                  filledQty |-> f.filledQty, partialFill |-> f.partialFill,
                  rollback |-> f.rollback, netProfit |-> f.netProfit]
            ELSE ExecutionCatch(completed, ex, day)

NoExecution ==
    [executionId |-> 0, symbol |-> "", opportunity |-> <<>>, buyQty |-> 0,
     buyPrice |-> 0, buyFees |-> 0]

(***************************************************************************)
(* Indian exchange mock (src/lib/exchanges/indianMock.ts lines 94-168)     *)
(***************************************************************************)

\* getIndianOrderBook(symbol, 20) of both callers: the number of levels.
Depth == 20

\* The asks of getIndianOrderBook: level i is priced midPrice * (1 +
\* spreadPercent * i); spreadBps is spreadPercent in hundredths of a percent
\* (10 up to 50), quantity the quantity of a level (random from 0.1 up to
\* 5.1 units in the code, here the same at every level).
GetIndianOrderBook(midPrice, spreadBps, quantity) ==
    [i \in 1..Depth |-> <<midPrice + (midPrice * spreadBps * i) \div 10000, quantity>>]

(***************************************************************************)
(* Risk assessment (src/lib/agents/riskAssessment.ts lines 461-584)        *)
(***************************************************************************)

\* getIndianLiquidityEstimate(symbol, targetQty): the same walk of the asks.
LiquidityEstimate(asks, targetQty) ==
    LET w == FillWalk(asks, targetQty, 0, 0) IN
    [fillableQty |-> w.filledQty,
     expectedAvgPrice |-> IF w.filledQty > 0 THEN w.totalSellValue \div w.filledQty
                          ELSE 0]

\* The result of the catch block.
FailSafeNeutral ==
    [riskScore |-> 50, slippage |-> <<1, 100>>, volatilityPct100 |-> 100,
     fillableQty |-> 0, failSafe |-> TRUE]
FailSafeRisk ==
    [riskScore |-> 80, slippage |-> <<1, 100>>, volatilityPct100 |-> 100,
     fillableQty |-> 0, failSafe |-> TRUE]

\* slippagePct as the fraction <<numerator, denominator>>: the distance of
\* the expected average price from the Indian price, over that price; 1%
\* when nothing is fillable.
SlippageOf(liq, indianPrice) ==
    IF liq.fillableQty > 0 THEN <<Abs(liq.expectedAvgPrice - indianPrice), indianPrice>>
    ELSE <<1, 100>>

\* Step 5, the volatility penalty.
ByVolatilityStablePenalised(volatilityPct100) ==
    IF volatilityPct100 > 100 THEN 25
    ELSE IF volatilityPct100 > 50 THEN 15
    ELSE IF volatilityPct100 < 10 THEN 10
    ELSE 0
ByVolatility(volatilityPct100) ==
    IF volatilityPct100 > 100 THEN 25
    ELSE IF volatilityPct100 > 50 THEN 15
    ELSE IF volatilityPct100 < 10 THEN -10
    ELSE 0

\* Steps 4 to 7 and the clamp: the score from the spread, the volatility
\* (both in hundredths of a percent), the fill ratio fillableQty / targetQty
\* and the slippage slipNum / slipDen.
RiskScore(spreadPct100, volatilityPct100, fillableQty, targetQty, slipNum, slipDen) ==
    LET slippageOver(pct100) == QuotientGT(slipNum, slipDen, pct100, 10000)
        byVolatility == ByVolatility(volatilityPct100)
        bySpread == IF spreadPct100 > 200 THEN -20
                    ELSE IF spreadPct100 > 100 THEN -10
                    ELSE IF spreadPct100 < 50 THEN 20
                    ELSE 0
        byFill == IF QuotientLT(fillableQty, targetQty, 1, 2) THEN 30
                  ELSE IF QuotientLT(fillableQty, targetQty, 8, 10) THEN 15
                  ELSE IF QuotientGE(fillableQty, targetQty, 1, 1) THEN -5
                  ELSE 0
        bySlippage == IF slippageOver(50) THEN 20
                      ELSE IF slippageOver(20) THEN 10
                      ELSE 0
    IN Max(0, Min(100, 50 + bySpread + byVolatility + byFill + bySlippage))

\* assessRisk(opportunity, targetQuantity): volatilityPct100 is what the price
\* history gives (50 when it holds fewer than two ticks), book the order book
\* of the Indian exchange or the failure of its request.
AssessRisk(opportunity, targetQty, volatilityPct100, book) ==
    IF ~book.ok THEN FailSafeRisk
    ELSE
    LET liq == LiquidityEstimate(book.asks, targetQty)
        slip == SlippageOf(liq, opportunity.indianPrice)
    IN [riskScore |-> RiskScore(opportunity.spreadPct100, volatilityPct100,
                                liq.fillableQty, targetQty, slip[1], slip[2]),
        slippage |-> slip, volatilityPct100 |-> volatilityPct100,
        fillableQty |-> liq.fillableQty, failSafe |-> FALSE]

(***************************************************************************)
(* Runner (src/unnamed/part_001 lines 87-276)                              *)
(***************************************************************************)

NoTime == -1

\* DEFAULT_STATE.runner
DefaultRunner ==
    [isRunning |-> FALSE, startTime |-> NoTime, pollCount |-> 0,
     opportunitiesProcessed |-> 0, executionsAttempted |-> 0,
     executionsSuccessful |-> 0, lastPollTime |-> NoTime]

NoRisk ==
    [riskScore |-> 0, slippage |-> <<0, 1>>, volatilityPct100 |-> 0, fillableQty |-> 0,
     failSafe |-> FALSE]

\* A pollOnce invocation: pc names the await it stands at; opportunities are
\* the one being processed and those after it; risk, allocatedUSDT and ex are
\* the locals that live across an await.
NoPoll ==
    [pc |-> "idle", opportunities |-> <<>>, risk |-> NoRisk,
     allocatedUSDT |-> 0, ex |-> NoExecution]

\* Line 155: if (guardian.pass && debate.decision === 'execute')
ShouldExecuteEither(guardian, debate) ==
    guardian.pass \/ debate.decision = "execute"
ShouldExecute(guardian, debate) ==
    guardian.pass /\ debate.decision = "execute"

\* Lines 92-102: the counters of a poll that begins, up to the await of
\* discoverPrices.
PollBegun(rn, currentTime) ==
    [rn EXCEPT !.pollCount = @ + 1, !.lastPollTime = currentTime]

\* Lines 115-123: the head of the loop over the opportunities, up to the
\* await of assessRisk; the poll returns when none is left.
LoopRunner(rn, opportunities) ==
    IF opportunities = <<>> THEN rn
    ELSE [rn EXCEPT !.opportunitiesProcessed = @ + 1]

LoopPoll(opportunities) ==
    IF opportunities = <<>> THEN NoPoll
    ELSE [NoPoll EXCEPT !.pc = "risk", !.opportunities = opportunities]

\* Lines 186-195, the catch block of pollOnce: the runner_poll_error entry;
\* an error of that write rejects the promise, which the caller logs.
PollCatch(st, day) ==
    Caught(WriteAuditLog(Caught(st), "runner_poll_error", 0, day))

\* Lines 92-102 on the store: what is left of the store and of the poll.
PollStart(st, currentTime, day) ==
    LET begun == WriteRunner(st, PollBegun(st.runner, currentTime)) IN
    IF begun.ok
    THEN [st |-> begun, poll |-> [NoPoll EXCEPT !.pc = "discover"]]
    ELSE [st |-> PollCatch(begun, day), poll |-> NoPoll]

\* Lines 115-118 on the store: the next opportunity is counted, or the poll
\* returns; an error of the write ends the poll in its catch block.
LoopHead(st, opportunities, day) ==
    LET counted == IF opportunities = <<>> THEN st
                   ELSE WriteRunner(st, LoopRunner(st.runner, opportunities))
    IN IF counted.ok
       THEN [st |-> counted, poll |-> LoopPoll(opportunities)]
       ELSE [st |-> PollCatch(counted, day), poll |-> NoPoll]

\* The pollOnce invocations that can be in flight at once.
MaxPolls == 2
PollIds == 1..MaxPolls

\* Before a poll has decided on an opportunity.
NoGate ==
    [kind |-> "none", poll |-> 0, pass |-> FALSE, decision |-> "",
     failSafe |-> FALSE]

\* Before a start, stop, status request or execution has returned.
NoRet ==
    [op |-> "none", result |-> "", executionId |-> 0, targetQty |-> 0,
     depth |-> 0, fillRatioLow |-> FALSE, buyQty |-> 0, filledQty |-> 0,
     partialFill |-> FALSE, status |-> DefaultRunner]

\* What startRunner or stopRunner returned: "true", "false" or "throw".
Returned(op, result) == [NoRet EXCEPT !.op = op, !.result = result]

RECURSIVE BookDepth(_)
BookDepth(asks) ==
    IF asks = <<>> THEN 0 ELSE Head(asks)[2] + BookDepth(Tail(asks))

\* What executeArbitrageWithPartialFills returned for ex, r its outcome:
\* the quantity it wanted, the depth of the book it got and whether the fill
\* ratio was below 0.9, then buyQty, filledQty and partialFill of the result
\* (lines 574-583, and lines 594-600 for a failure).
ExecutionReturned(ex, book, r) ==
    [op |-> "execute", result |-> r.outcome, executionId |-> ex.executionId,
     targetQty |-> ex.buyQty, depth |-> BookDepth(book.asks),
     fillRatioLow |-> book.ok /\ ExecutionFill(ex, book.asks).rollback,
     buyQty |-> IF r.outcome = "success" THEN ex.buyQty ELSE 0,
     filledQty |-> r.filledQty, partialFill |-> r.partialFill]

RunnerIdle ==
    /\ runner = DefaultRunner
    /\ runnerInterval = FALSE
    /\ nextFire = 0
    /\ polls = [p \in PollIds |-> NoPoll]
    /\ gate = NoGate

(***************************************************************************)
(* Harness of the debate engine: one call on arguments drawn from bounded  *)
(* sets.                                                                   *)
(***************************************************************************)

\* Provider scores lie on a grid of ScoreSteps steps per unit, one step
\* below 0 and one above 1 included (the code clamps them).
ScoreSteps == 5
ScoreGrid == {(k * ScoreOne) \div ScoreSteps : k \in (-1)..(ScoreSteps + 1)}

\* executeConfidenceThreshold: the default 0.6, and 0.5.
Thresholds == {(6 * ScoreOne) \div 10, ScoreOne \div 2}

DebateRiskScores == {0, 50, 100}
DebateSpreads == {50, 150, 450}

Perspectives ==
    {[present |-> FALSE, hasScore |-> FALSE, score |-> 0],
     [present |-> TRUE, hasScore |-> FALSE, score |-> 0]}
    \cup {[present |-> TRUE, hasScore |-> TRUE, score |-> x] : x \in ScoreGrid}

NoReply == [bullish |-> [present |-> FALSE, hasScore |-> FALSE, score |-> 0],
            bearish |-> [present |-> FALSE, hasScore |-> FALSE, score |-> 0],
            neutral |-> [present |-> FALSE, hasScore |-> FALSE, score |-> 0]]

DebateInputs ==
    {[spreadPct100 |-> sp, riskScore |-> rs, threshold |-> t, wellFormed |-> wf,
      provider |-> pr, reply |-> NoReply] :
        sp \in DebateSpreads, rs \in DebateRiskScores, t \in Thresholds,
        wf \in BOOLEAN, pr \in {"none", "error", "unparseable"}}
    \cup
    {[spreadPct100 |-> sp, riskScore |-> rs, threshold |-> t, wellFormed |-> wf,
      provider |-> "json", reply |-> rp] :
        sp \in DebateSpreads, rs \in DebateRiskScores, t \in Thresholds,
        wf \in BOOLEAN,
        rp \in [bullish : Perspectives, bearish : Perspectives, neutral : Perspectives]}

DebateIdle ==
    /\ dbIn = [spreadPct100 |-> 150, riskScore |-> 50,
               threshold |-> (6 * ScoreOne) \div 10, wellFormed |-> TRUE,
               provider |-> "none", reply |-> NoReply]
    /\ dbOut = NoResult

DebateCall ==
    /\ dbOut = NoResult
    /\ dbOut' = DebateWithMedianConsensus(dbIn)
    /\ UNCHANGED <<dbIn, alIn, alOut, rkOut, stOut, acOut, histVars, detVars, worldVars>>

(***************************************************************************)
(* Harness of the capital allocator.                                       *)
(***************************************************************************)

\* portfolio.usdtBalance: the multiples of 25000 from -50000 up to
\* MaxBalanceSteps * 25000 (the default portfolio holds 100000).
MaxBalanceSteps == 4
AllocBalances == {k * 25000 : k \in (-2)..MaxBalanceSteps}
AllocMaxTrades == {0, 100, 5000}
AllocRiskScores == {5 * k : k \in 0..20}

AllocIdle ==
    /\ alIn = [riskScore |-> 50, riskShape |-> TRUE,
               usdtBalance |-> 100000, maxTradeAmount |-> 5000]
    /\ alOut = NoResult

AllocCall ==
    /\ alOut = NoResult
    /\ alOut' = [kind |-> "ok"] @@
                AllocateCapitalForOpportunity(alIn.riskScore, alIn.riskShape,
                                              alIn.usdtBalance, alIn.maxTradeAmount)
    /\ UNCHANGED <<dbIn, dbOut, alIn, rkOut, stOut, acOut, histVars, detVars, worldVars>>

(***************************************************************************)
(* Capital allocation over several opportunities                           *)
(* (src/lib/agents/capitalAllocation.ts lines 54-187).  Money is in whole  *)
(* units, rounded down after every multiplication; expectedReturn (a       *)
(* percentage), risk (0 to 1) and sharpeRatio are in thousandths,          *)
(* spreadSize in hundredths of a percent.                                  *)
(***************************************************************************)

\* calculatePriority(opp), in thousandths
CalculatePriority(opp) ==
    LET timeBonus == IF opp.timeHorizon < 60 THEN 20
                     ELSE IF opp.timeHorizon < 300 THEN 10 ELSE 0
    IN Max(0, opp.sharpeRatio + opp.spreadSize * 100 - opp.risk * 50 + timeBonus * 1000)

\* scoredOpportunities.sort((a, b) => b.priority - a.priority), a stable sort
RECURSIVE SortByPriority(_)
SortByPriority(s) ==
    IF s = <<>> THEN <<>>
    ELSE LET rest == SortByPriority(Tail(s))
             before == SelectSeq(rest, LAMBDA o : CalculatePriority(o) > CalculatePriority(Head(s)))
             after == SelectSeq(rest, LAMBDA o : CalculatePriority(o) <= CalculatePriority(Head(s)))
         IN before \o <<Head(s)>> \o after

\* if (allocation < MIN_ALLOCATION) continue
NeverBelowMinimum(allocation) == FALSE
BelowMinimum(allocation) == allocation < 100

\* The allocation of the opportunity at rank i (from 0), before the minimum
\* is looked at.
AllocationAt(opp, i, availableCapital, remainingCapital, totalAllocated) ==
    LET kellyFraction == Max(0, Min(((opp.expectedReturn - opp.risk) * 1000)
                                        \div Max(opp.expectedReturn, 10), 250))
        base == (availableCapital * kellyFraction) \div 1000
        ranked == (base * Max(10 - i, 3)) \div 10
        spread == IF opp.spreadSize # 0
                  THEN (ranked * Min(1000 + opp.spreadSize, 2000)) \div 1000
                  ELSE ranked
        risked == (spread * Max(1000 - opp.risk \div 2, 200)) \div 1000
        maxSingleAllocation == (availableCapital * 20) \div 100
        maxTotalAllocation == (availableCapital * 80) \div 100
    IN Min(Min(Min(risked, maxSingleAllocation), remainingCapital),
           maxTotalAllocation - totalAllocated)

\* The loop from rank i on: st holds allocations, remainingCapital and
\* totalAllocated.
RECURSIVE AllocateLoop(_, _, _, _)
AllocateLoop(st, scored, i, availableCapital) ==
    IF i > Len(scored) THEN st
    ELSE IF st.remainingCapital < 100 THEN st
    ELSE IF st.totalAllocated >= (availableCapital * 80) \div 100 THEN st
    ELSE LET allocation == AllocationAt(scored[i], i - 1, availableCapital,
                                        st.remainingCapital, st.totalAllocated)
         IN IF BelowMinimum(allocation)
            THEN AllocateLoop(st, scored, i + 1, availableCapital)
            ELSE AllocateLoop(
                     [allocations |-> Append(st.allocations,
                                             [opportunityId |-> scored[i].id,
                                              allocatedCapital |-> allocation]),
                      remainingCapital |-> st.remainingCapital - allocation,
                      totalAllocated |-> st.totalAllocated + allocation],
                     scored, i + 1, availableCapital)

\* allocateCapital(opportunities, portfolio): the allocations
AllocateCapital(opportunities, availableCapital) ==
    IF opportunities = <<>> THEN <<>>
    ELSE AllocateLoop([allocations |-> <<>>, remainingCapital |-> availableCapital,
                       totalAllocated |-> 0],
                      SortByPriority(opportunities), 1, availableCapital).allocations

(***************************************************************************)
(* Price discovery (src/unnamed/part_000 lines 41-182)                     *)
(***************************************************************************)

\* const MAX_TICKS = 100
MaxTicksKept == 100

\* A source that failed: its promise was rejected and caught as null.
NoPrice == -1

\* addPriceTick(symbol, price): push, then shift when more than MAX_TICKS
\* are held.  A tick is kept by its price; its timestamp is not modelled.
AddPriceTickDropNewest(history, symbol, price) ==
    LET pushed == Append(history[symbol], price)
    IN [history EXCEPT ![symbol] = IF Len(pushed) > MaxTicksKept
                                   THEN SubSeq(pushed, 1, MaxTicksKept) ELSE pushed]
AddPriceTick(history, symbol, price) ==
    LET pushed == Append(history[symbol], price)
    IN [history EXCEPT ![symbol] = IF Len(pushed) > MaxTicksKept
                                   THEN Tail(pushed) ELSE pushed]

\* price || 0
KeepNull(price) == price
OrZero(price) == IF price = NoPrice THEN 0 ELSE price

\* One turn of the loop of discoverPrices: fetched holds what the three
\* sources gave for the symbol.
DiscoverOne(st, symbol, fetched) ==
    LET history == IF fetched.binance # NoPrice
                   THEN AddPriceTick(st.history, symbol, fetched.binance)
                   ELSE st.history
    IN [history |-> history,
        results |-> Append(st.results,
                           [symbol |-> symbol,
                            binancePrice |-> OrZero(fetched.binance),
                            indianPrice |-> OrZero(fetched.indian),
                            nsePrice |-> OrZero(fetched.nse),
                            tickCount |-> Len(history[symbol])])]

\* discoverPrices(symbols) from the loop state st (the history, and no
\* results yet): fetched[i] is what the sources gave for symbols[i].
RECURSIVE DiscoverPrices(_, _, _)
DiscoverPrices(st, symbols, fetched) ==
    IF symbols = <<>> THEN st
    ELSE DiscoverPrices(DiscoverOne(st, Head(symbols), Head(fetched)),
                        Tail(symbols), Tail(fetched))

\* History: arrivals with the Binance prices a call brought, in the order
\* of its list.
Arrived(symbols, fetched) ==
    [sym \in Symbols |->
        LET idx == SelectSeq([i \in 1..Len(symbols) |-> i],
                             LAMBDA i : symbols[i] = sym /\ fetched[i].binance # NoPrice)
        IN arrivals[sym] \o [j \in 1..Len(idx) |-> fetched[idx[j]].binance]]

(***************************************************************************)
(* Harness of the detector: calls of detectArbitrage (the runner's poll,   *)
(* GET /api/arbitrage/detect) on bounded price lists and options, and the  *)
(* clock.                                                                  *)
(***************************************************************************)

\* The clock advances in steps of the default poll interval, pollMs = 2000,
\* up to MaxClockTicks steps.
PollMs == 2000
MaxClockTicks == 6

\* A buffered key is observed at most MaxObservations times.
MaxObservations == 3

\* A DiscoveredPrice: a missing price is 0 (binancePrice || 0).  Against a
\* Binance price of 1000.0 the Indian prices give spreads of -2%, 0.4% and 3%.
PriceOf(sym, binancePrice, indianPrice) ==
    [symbol |-> sym, binancePrice |-> binancePrice, indianPrice |-> indianPrice]
QuotedSamples ==
    {PriceOf("BTCUSDT", 10000, ip) : ip \in {9800, 10040, 10300}}
PriceSamples ==
    QuotedSamples \cup {PriceOf("BTCUSDT", 10000, 0), PriceOf("BTCUSDT", 0, 10300)}

\* The lists of at most two DiscoveredPrice, a symbol listed twice included.
PriceLists ==
    {<<>>} \cup {<<p>> : p \in PriceSamples}
           \cup {<<p, q>> : p \in QuotedSamples, q \in QuotedSamples}

\* DetectArbitrageOptions: the defaults (0.5, 2000, 2) and variations.
DetectOptions ==
    {[minSpreadPct100 |-> 50, persistenceMs |-> 2000, minPersistenceCount |-> 2],
     [minSpreadPct100 |-> 50, persistenceMs |-> 2000, minPersistenceCount |-> 3],
     [minSpreadPct100 |-> 50, persistenceMs |-> 6000, minPersistenceCount |-> 2]}
RunnerDetectOptions ==
    [minSpreadPct100 |-> 50, persistenceMs |-> 2000, minPersistenceCount |-> 2]

NoDetectCall ==
    [kind |-> "none", opts |-> RunnerDetectOptions, at |-> 0, prices |-> <<>>,
     staleKeys |-> {}, opportunities |-> <<>>]

DetectIdle ==
    /\ now = 0
    /\ persistenceBuffer = EmptyBuffer
    /\ detOut = NoDetectCall
    /\ detSeen = {}

\* Time passes, by the poll interval; the harness forgets the last call's
\* result.
Tick ==
    /\ now + PollMs <= MaxClockTicks * PollMs
    /\ runnerInterval => now + PollMs <= nextFire   \* a due timer fires first
    /\ now' = now + PollMs
    /\ detOut' = NoDetectCall
    /\ UNCHANGED <<pureVars, persistenceBuffer, detSeen, worldVars>>

\* detectArbitrage(prices, opts) is called; the harness keeps its arguments
\* and what it returned.
DetectCall ==
    /\ detOut.kind = "none"
    /\ \E prices \in PriceLists, opts \in DetectOptions :
         \E r \in {DetectArbitrage(persistenceBuffer, prices, opts, now)} :
           /\ \A k \in Keys : r.buffer[k].persistenceCount <= MaxObservations
           /\ persistenceBuffer' = r.buffer
           /\ detSeen' = r.seenKeys
           /\ detOut' = [kind |-> "ok", opts |-> opts, at |-> now,
                         prices |-> prices, staleKeys |-> r.staleKeys,
                         opportunities |-> r.opportunities]
    /\ UNCHANGED <<pureVars, now, worldVars>>

\* The caller has used the result; the harness forgets the call.
DetectReturn ==
    /\ detOut.kind = "ok"
    /\ detOut' = NoDetectCall
    /\ UNCHANGED <<pureVars, now, persistenceBuffer, detSeen,
                   worldVars>>

(***************************************************************************)
(* Harness of the Guardian: the store starts as DEFAULT_STATE; direct      *)
(* executions (POST /api/arbitrage/execute) move the portfolio and the     *)
(* audit log, the settings route changes the configuration, days pass, and *)
(* guardianCheck is called on the store as it then is.                     *)
(***************************************************************************)

MaxExecutions == 2
MaxDays == 1

\* buySlippage = 0.0001 + Math.random() * 0.0009, in hundredths of a percent
BuySlippages == {5}

\* What getIndianOrderBook gives: its request fails, or a book around a mid
\* price 2% over 1000.0 with levels of 0.20, 0.24 or 3.00 units; an order of
\* 5.00 units fills to 80%, to 96% or completely.
OrderBooks ==
    {[ok |-> TRUE, asks |-> GetIndianOrderBook(10200, 20, quantity)] :
        quantity \in {20, 24, 300}}
    \cup {[ok |-> FALSE, asks |-> <<>>]}

ApiOpportunity ==
    [symbol |-> "BTCUSDT", binancePrice |-> 10000, indianPrice |-> 10300,
     action |-> "buy-binance-sell-india"]

\* Opportunities as detectArbitrage makes them, of either direction.
DirectedOpportunities ==
    {[symbol |-> p.symbol, binancePrice |-> p.binancePrice,
      indianPrice |-> p.indianPrice, action |-> ActionOf(p)] :
        p \in {PriceOf("BTCUSDT", 10000, 10300), PriceOf("BTCUSDT", 10300, 10000)}}

\* Amounts of a direct execution: the cap of the runner, and an amount of
\* which the thinnest book fills so little that the loss is the whole default
\* portfolio.
ApiAllocations == {5000, 104000}

GuardianConfigs ==
    {DefaultGuardianSettings,
     [DefaultGuardianSettings EXCEPT !.dailyMaxTrades = 2],
     [DefaultGuardianSettings EXCEPT !.dailyMaxTrades = 1,
                                     !.maxTradePctOfPortfolio = 5,
                                     !.highVolatility = FALSE]}

GuardianRisks == [riskScore : {20, 75, 80}, volatilityPct100 : {50, 250}]

NoGuardianCall ==
    [kind |-> "none", allocatedUSDT |-> 0,
     risk |-> [riskScore |-> 0, volatilityPct100 |-> 0],
     result |-> [pass |-> FALSE, reason |-> "", warning |-> FALSE]]

NoApiExec == [pc |-> "idle", ex |-> NoExecution]

\* data/state.json holds the state in memory, as after ensureStateFile and
\* loadState.
StateFileCurrent ==
    stateFile = [runner |-> runner, portfolio |-> portfolio, auditLog |-> auditLog,
                 executionLog |-> executionLog]

StoreDefault ==
    /\ today = 0
    /\ portfolio = DefaultPortfolio
    /\ auditLog = <<>>
    /\ executionLog = <<>>
    /\ guardianSettings = DefaultGuardianSettings
    /\ apiExec = NoApiExec
    /\ netProfits = 0
    /\ disk = DiskOk
    /\ ret = NoRet
    /\ RunnerIdle
    /\ StateFileCurrent

GuardianIdle == gdOut = NoGuardianCall

\* The store as a handler finds it, and as it leaves it.
Store == StoreOf(runner, portfolio, auditLog, executionLog, disk, stateFile)

StoreLeft(st) ==
    /\ runner' = st.runner
    /\ portfolio' = st.portfolio
    /\ auditLog' = st.auditLog
    /\ executionLog' = st.executionLog
    /\ disk' = st.disk
    /\ stateFile' = st.file

NoBook == [ok |-> FALSE, asks |-> <<>>]

\* The executions begun so far.
Attempts == Cardinality({i \in DOMAIN auditLog : auditLog[i].action = "buy_order_placed"})

\* POST /api/arbitrage/execute up to the await of the order book, or to the
\* response when the engine has already failed.
ApiExecuteStartOf(opportunities) ==
    /\ apiExec.pc = "idle"
    /\ Attempts < MaxExecutions
    /\ \E opportunity \in opportunities, allocatedUSDT \in ApiAllocations,
          slipBps \in BuySlippages :
         LET ex == ExecutionBegin(opportunity, allocatedUSDT, slipBps,
                                  Len(executionLog) + 1)
             r == ExecutionStart(Store, ex, today)
         IN /\ StoreLeft(r.st)
            /\ apiExec' = IF r.outcome = "await"
                          THEN [pc |-> "orderbook", ex |-> ex]
                          ELSE NoApiExec
            /\ ret' = IF r.outcome = "await" THEN NoRet
                      ELSE ExecutionReturned(ex, NoBook, r)
    /\ gdOut' = NoGuardianCall
    /\ UNCHANGED <<pureVars, detVars, today, guardianSettings, netProfits,
                   runnerInterval, nextFire, polls, gate>>

ApiExecuteStart == ApiExecuteStartOf({ApiOpportunity})

\* The order book arrives, or its request fails; the engine finishes.
ApiExecuteFinish ==
    /\ apiExec.pc = "orderbook"
    /\ \E book \in OrderBooks :
         \E r \in {ExecutionEnd(Store, apiExec.ex, book, today)} :
           /\ StoreLeft(r.st)
           /\ netProfits' = netProfits + r.netProfit
           /\ ret' = ExecutionReturned(apiExec.ex, book, r)
    /\ apiExec' = NoApiExec
    /\ gdOut' = NoGuardianCall
    /\ UNCHANGED <<pureVars, detVars, today, guardianSettings,
                   runnerInterval, nextFire, polls, gate>>

\* Writes to data/state.json begin to fail after some more of them, once
\* or until the disk is repaired.
MaxWritesBeforeFault == 4
DiskFaults == [left : 0..MaxWritesBeforeFault, once : BOOLEAN]

DiskFault(faults) ==
    /\ disk = DiskOk
    /\ disk' \in faults
    /\ UNCHANGED <<pureVars, detVars, today, storeVars, apiExec, netProfits,
                   gdOut, runnerVars, stateFile, ret>>

DiskRepair ==
    /\ disk # DiskOk
    /\ disk' = DiskOk
    /\ UNCHANGED <<pureVars, detVars, today, storeVars, apiExec, netProfits,
                   gdOut, runnerVars, stateFile, ret>>

\* POST /api/settings/guardian
UpdateGuardianConfig ==
    /\ \E config \in GuardianConfigs :
         /\ config # guardianSettings
         /\ guardianSettings' = config
    /\ gdOut' = NoGuardianCall
    /\ UNCHANGED <<pureVars, detVars, today, portfolio, auditLog, executionLog,
                   apiExec, netProfits, runnerVars, disk, stateFile, ret>>

\* Midnight passes.
NextDay ==
    /\ today < MaxDays
    /\ today' = today + 1
    /\ gdOut' = NoGuardianCall
    /\ UNCHANGED <<pureVars, detVars, storeVars, apiExec, netProfits, runnerVars,
                   disk, stateFile, ret>>

\* guardianCheck on the store as it is, with the allocation the runner would
\* make from the cash or another amount.
GuardianCall ==
    /\ \E risk \in GuardianRisks :
         \E allocatedUSDT \in
              {AllocateCapitalForOpportunity(risk.riskScore, TRUE, portfolio.cash,
                                             5000).allocatedUSDT, 5000, 20000} :
           gdOut' = [kind |-> "ok", allocatedUSDT |-> allocatedUSDT,
                     risk |-> risk,
                     result |-> GuardianCheck(risk, allocatedUSDT, guardianSettings,
                                              portfolio, auditLog, today)]
    /\ UNCHANGED <<pureVars, detVars, today, storeVars, apiExec, netProfits,
                   runnerVars, disk, stateFile, ret>>

(***************************************************************************)
(* The runner at work: start and stop, the interval timer, and the polls   *)
(* it starts, each advancing from one await to the next with what the      *)
(* awaited call returned.                                                  *)
(***************************************************************************)

MaxPollCount == 2
MaxStarts == 1

\* What discoverPrices returns for the runner's symbols.
RunnerPriceLists ==
    {<<PriceOf("BTCUSDT", 10000, btc), PriceOf("ETHUSDT", 10000, eth)>> :
        btc \in {10040, 10300}, eth \in {10300}}

\* volatilityPct of the price history, in hundredths of a percent
Volatilities == {50, 250}

\* What the language model provider answers: nothing usable, or three
\* perspectives with high or low scores.
ReplyOf(bull, bear, neut) ==
    [bullish |-> [present |-> TRUE, hasScore |-> TRUE, score |-> bull],
     bearish |-> [present |-> TRUE, hasScore |-> TRUE, score |-> bear],
     neutral |-> [present |-> TRUE, hasScore |-> TRUE, score |-> neut]]

RunnerReplies ==
    {[provider |-> "none", reply |-> NoReply],
     [provider |-> "json", reply |-> ReplyOf(ScoreOne, 0, ScoreOne)],
     [provider |-> "json", reply |-> ReplyOf(0, ScoreOne, 0)]}

IdlePolls == {p \in PollIds : polls[p].pc = "idle"}
FreePoll == CHOOSE p \in IdlePolls : \A q \in IdlePolls : p <= q
Started == Cardinality({i \in DOMAIN auditLog : auditLog[i].action = "runner_started"})
Stopped == Cardinality({i \in DOMAIN auditLog : auditLog[i].action = "runner_stopped"})

\* startRunner(2000), with the synchronous head of the first poll it issues;
\* the runner is started at most `starts` times.
StartRunnerUpTo(starts) ==
    /\ IF runner.isRunning
       THEN /\ ret' = Returned("start", "false")
            /\ UNCHANGED <<runner, auditLog, disk, stateFile, runnerInterval, nextFire, polls>>
       ELSE /\ IdlePolls # {}
            /\ Started < starts
            /\ Stopped < starts
            /\ LET reset == WriteRunner(Store,
                             [runner EXCEPT !.isRunning = TRUE, !.startTime = now,
                                            !.pollCount = 0,
                                            !.opportunitiesProcessed = 0,
                                            !.executionsAttempted = 0,
                                            !.executionsSuccessful = 0])
                logged == WriteAuditLog(reset, "runner_started", 0, today)
                first == PollStart(logged, now, today)
               IN IF logged.ok
                  THEN /\ runner' = first.st.runner
                       /\ auditLog' = first.st.auditLog
                       /\ disk' = first.st.disk
                       /\ stateFile' = first.st.file
                       /\ runnerInterval' = TRUE
                       /\ nextFire' = now + PollMs
                       /\ polls' = [polls EXCEPT ![FreePoll] = first.poll]
                       /\ ret' = Returned("start", "true")
                  ELSE /\ runner' = logged.runner
                       /\ auditLog' = logged.auditLog
                       /\ disk' = logged.disk
                       /\ stateFile' = logged.file
                       /\ ret' = Returned("start", "throw")
                       /\ UNCHANGED <<runnerInterval, nextFire, polls>>
    /\ gate' = NoGate
    /\ UNCHANGED <<pureVars, detVars, today, portfolio, executionLog,
                   guardianSettings, apiExec, netProfits, gdOut>>

StartRunner == StartRunnerUpTo(MaxStarts)

\* Lines 253-256: clearInterval(runnerInterval); runnerInterval = null.
IntervalKept == TRUE
IntervalCleared == FALSE

\* stopRunner()
StopRunner ==
    /\ IF ~runner.isRunning
       THEN /\ ret' = Returned("stop", "false")
            /\ UNCHANGED <<runner, auditLog, disk, stateFile, runnerInterval>>
       ELSE LET halted == WriteRunner(Store, [runner EXCEPT !.isRunning = FALSE])
                logged == WriteAuditLog(halted, "runner_stopped", 0, today)
            IN /\ runnerInterval' = IntervalCleared
               /\ runner' = logged.runner
               /\ auditLog' = logged.auditLog
               /\ disk' = logged.disk
               /\ stateFile' = logged.file
               /\ ret' = Returned("stop", IF logged.ok THEN "true" ELSE "throw")
    /\ gate' = NoGate
    /\ UNCHANGED <<pureVars, detVars, today, portfolio, executionLog,
                   guardianSettings, apiExec, netProfits, gdOut, nextFire, polls>>

\* Lines 229-231: the callback runs while the interval set by setInterval
\* has not been cleared.
TimerAlwaysSet == TRUE
TimerSet == runnerInterval

\* The interval timer fires: pollOnce() up to the await of discoverPrices.
TimerFires ==
    /\ TimerSet
    /\ now >= nextFire
    /\ IdlePolls # {}
    /\ runner.pollCount < MaxPollCount
    /\ nextFire' = nextFire + PollMs
    /\ \E first \in {PollStart(Store, now, today)} :
         /\ StoreLeft(first.st)
         /\ polls' = [polls EXCEPT ![FreePoll] = first.poll]
    /\ gate' = NoGate
    /\ ret' = NoRet
    /\ UNCHANGED <<pureVars, detVars, today, guardianSettings, apiExec,
                   netProfits, gdOut, runnerInterval>>

\* Time passes while a timer is set or a poll is in flight.
RunnerTick ==
    /\ runnerInterval \/ IdlePolls # PollIds
    /\ Tick

\* discoverPrices returned: the ticks are in the history; detectArbitrage,
\* then the head of the loop.
DiscoverDone(p) ==
    /\ polls[p].pc = "discover"
    /\ \E prices \in RunnerPriceLists :
         \E r \in {DetectArbitrage(persistenceBuffer, prices, RunnerDetectOptions, now)} :
           \E h \in {LoopHead(Store, r.opportunities, today)} :
             /\ \E symbols \in {[i \in DOMAIN prices |-> prices[i].symbol]},
                   fetched \in {[i \in DOMAIN prices |->
                                   [binance |-> prices[i].binancePrice,
                                    indian |-> prices[i].indianPrice,
                                    nse |-> NoPrice]]} :
                  /\ priceHistory' = DiscoverPrices([history |-> priceHistory,
                                                     results |-> <<>>],
                                                    symbols, fetched).history
                  /\ arrivals' = Arrived(symbols, fetched)
             /\ persistenceBuffer' = r.buffer
             /\ detSeen' = r.seenKeys
             /\ StoreLeft(h.st)
             /\ polls' = [polls EXCEPT ![p] = h.poll]
    /\ gate' = NoGate
    /\ ret' = NoRet
    /\ UNCHANGED <<dbIn, dbOut, alIn, alOut, rkOut, stOut, acOut, dsOut, now, detOut, today,
                   guardianSettings, apiExec, netProfits, gdOut, runnerInterval,
                   nextFire>>

\* assessRisk returned: the allocation from the cash as it now is, up to the
\* await of the debate.
RiskDone(p) ==
    /\ polls[p].pc = "risk"
    /\ \E volatilityPct100 \in Volatilities, book \in OrderBooks :
         LET risk == AssessRisk(Head(polls[p].opportunities), 100,
                                volatilityPct100, book)
             allocation == AllocateCapitalForOpportunity(risk.riskScore, TRUE,
                                                         portfolio.cash, 5000)
         IN polls' = [polls EXCEPT ![p] = [@ EXCEPT !.pc = "debate", !.risk = risk,
                                    !.allocatedUSDT = allocation.allocatedUSDT]]
    /\ gate' = NoGate
    /\ ret' = NoRet
    /\ UNCHANGED <<pureVars, detVars, today, storeVars, apiExec, netProfits,
                   gdOut, runner, runnerInterval, nextFire, disk, stateFile>>

\* The debate returned: the Guardian check and the gate; either the
\* execution begins, up to the await of the order book, or the loop goes on.
DebateDone(p) ==
    /\ polls[p].pc = "debate"
    /\ \E answer \in RunnerReplies, slipBps \in BuySlippages :
         LET opp == Head(polls[p].opportunities)
             rest == Tail(polls[p].opportunities)
             ex == ExecutionBegin(opp, polls[p].allocatedUSDT, slipBps,
                                  Len(executionLog) + 1)
         IN
         \E debate \in {DebateWithMedianConsensus(
                            [spreadPct100 |-> opp.spreadPct100,
                             riskScore |-> polls[p].risk.riskScore,
                             threshold |-> (6 * ScoreOne) \div 10,
                             wellFormed |-> TRUE,
                             provider |-> answer.provider, reply |-> answer.reply])},
            guardian \in {GuardianCheck(polls[p].risk, polls[p].allocatedUSDT,
                                        guardianSettings, portfolio, auditLog, today)} :
           /\ gate' = [kind |-> "ok", poll |-> p, pass |-> guardian.pass,
                       decision |-> debate.decision,
                       failSafe |-> polls[p].risk.failSafe]
           /\ IF ~ShouldExecute(guardian, debate)
              THEN \E h \in {LoopHead(Store, rest, today)} :
                     /\ StoreLeft(h.st)
                     /\ polls' = [polls EXCEPT ![p] = h.poll]
                     /\ ret' = NoRet
              ELSE \E initiated \in
                        {WriteAuditLog(
                             WriteRunner(Store,
                                 [runner EXCEPT !.executionsAttempted = @ + 1]),
                             "autonomous_execution_initiated", 0, today)} :
                     IF ~initiated.ok
                     THEN /\ StoreLeft(PollCatch(initiated, today))
                          /\ polls' = [polls EXCEPT ![p] = NoPoll]
                          /\ ret' = NoRet
                     ELSE \E r \in {ExecutionStart(initiated, ex, today)} :
                            IF r.outcome = "await"
                            THEN /\ StoreLeft(r.st)
                                 /\ polls' = [polls EXCEPT ![p] =
                                        [NoPoll EXCEPT !.pc = "orderbook",
                                            !.opportunities = polls[p].opportunities,
                                            !.ex = ex]]
                                 /\ ret' = NoRet
                            ELSE \E h \in {LoopHead(r.st, rest, today)} :
                                   /\ StoreLeft(h.st)
                                   /\ polls' = [polls EXCEPT ![p] = h.poll]
                                   /\ ret' = ExecutionReturned(ex, NoBook, r)
    /\ UNCHANGED <<pureVars, detVars, today, guardianSettings, apiExec,
                   netProfits, gdOut, runnerInterval, nextFire>>

\* The order book arrived, or its request failed: the execution ends, the
\* runner counts a success (an error of that write is caught and logged),
\* and the loop goes on.
OrderBookDone(p) ==
    /\ polls[p].pc = "orderbook"
    /\ \E book \in OrderBooks :
         \E r \in {ExecutionEnd(Store, polls[p].ex, book, today)} :
           LET counted == IF r.outcome = "success"
                          THEN Caught(WriteRunner(r.st,
                                   [r.st.runner EXCEPT !.executionsSuccessful = @ + 1]))
                          ELSE r.st
               h == LoopHead(counted, Tail(polls[p].opportunities), today)
           IN /\ StoreLeft(h.st)
              /\ polls' = [polls EXCEPT ![p] = h.poll]
              /\ netProfits' = netProfits + r.netProfit
              /\ ret' = ExecutionReturned(polls[p].ex, book, r)
    /\ gate' = NoGate
    /\ UNCHANGED <<pureVars, detVars, today, guardianSettings, apiExec, gdOut,
                   runnerInterval, nextFire>>

\* The disk faults of the runner's runs: the next write fails, once or
\* until the repair.
\* getRunnerStatus(): { ...getState().runner }
RunnerStatusCounted(st) == [st.runner EXCEPT !.pollCount = @ + 1]
RunnerStatus(st) == st.runner

GetRunnerStatus ==
    /\ ret' = [Returned("status", "ok") EXCEPT !.status = RunnerStatus(Store)]
    /\ UNCHANGED <<pureVars, detVars, today, storeVars, apiExec, netProfits,
                   gdOut, runnerVars, disk, stateFile>>

RunnerDiskFaults == [left : {0}, once : BOOLEAN]

(***************************************************************************)
(* Harness of the audit log module: its callers add entries (the risk      *)
(* route one per assessment, the allocation route one per allocation), and *)
(* clearAuditLog is exported.                                              *)
(***************************************************************************)

MaxAuditEntries == 5

AuditAdd ==
    /\ Len(auditLog) < MaxAuditEntries
    /\ \E action \in {"Assess Trade Risk", "Allocate Capital"} :
         StoreLeft(WriteAuditLog(Store, action, 0, today))
    /\ UNCHANGED <<pureVars, detVars, today, guardianSettings, apiExec, netProfits,
                   gdOut, runnerInterval, nextFire, polls, gate, ret>>

AuditClear ==
    /\ StoreLeft(ClearAuditLog(Store))
    /\ UNCHANGED <<pureVars, detVars, today, guardianSettings, apiExec, netProfits,
                   gdOut, runnerInterval, nextFire, polls, gate, ret>>

\* updatePortfolio({ cash, totalValue }) by a caller that books a profit or
\* a loss: updateState('portfolio', updated).
MaxBooked == 2

UpdatePortfolioCall ==
    /\ \E profit \in {-500, 500} :
         /\ Abs(portfolio.cash + profit - DefaultCash) <= MaxBooked * 500
         /\ StoreLeft(WritePortfolio(Store, portfolio.cash + profit,
                                     portfolio.totalValue + profit))
    /\ UNCHANGED <<pureVars, detVars, today, guardianSettings, apiExec, netProfits,
                   gdOut, runnerInterval, nextFire, polls, gate, ret>>

(***************************************************************************)
(* Harness of the state file: a state is saved and, as at the start of a   *)
(* process, loaded.  The portfolio is the default one, one after trades,   *)
(* with or without a position, or the one an execution for an opportunity  *)
(* without a Binance price leaves (its net profit, and with it cash and    *)
(* totalValue, is NaN).                                                    *)
(***************************************************************************)

SavedPortfolios ==
    [cash : {0, 95000, DefaultCash}, totalValue : {99000, DefaultCash},
     positions : {<<>>, <<[symbol |-> "BTCUSDT", quantity |-> 50]>>},
     lastUpdate : {0, 2000, 4000}]
    \cup [cash : {NotANumber}, totalValue : {NotANumber}, positions : {<<>>},
          lastUpdate : {0, 2000, 4000}]

\* The defaults passed to loadState: DEFAULT_STATE, one without a portfolio,
\* one with another portfolio and a key the file does not have.
DefaultStates ==
    {[portfolio |-> [cash |-> DefaultCash, positions |-> <<>>,
                     totalValue |-> DefaultCash, lastUpdate |-> 0],
      auditLog |-> 0],
     [auditLog |-> 0],
     [portfolio |-> [cash |-> 1, positions |-> <<>>, totalValue |-> 1,
                     lastUpdate |-> 0],
      auditLog |-> 0, agents |-> 0]}

NoStateCall ==
    [kind |-> "none", saved |-> [auditLog |-> 0], defaultState |-> [auditLog |-> 0],
     loaded |-> [auditLog |-> 0]]

StateIdle == stOut = NoStateCall

SaveAndLoad ==
    /\ stOut.kind = "none"
    /\ \E pf \in SavedPortfolios, entries \in {0, 3}, defaultState \in DefaultStates :
         LET state == [portfolio |-> pf, auditLog |-> entries]
         IN stOut' = [kind |-> "ok", saved |-> state, defaultState |-> defaultState,
                      loaded |-> LoadState(defaultState, SavedFile(state))]
    /\ UNCHANGED <<dbIn, dbOut, alIn, alOut, rkOut, acOut, histVars, detVars, worldVars>>

StateReturn ==
    /\ stOut.kind = "ok"
    /\ stOut' = NoStateCall
    /\ UNCHANGED <<dbIn, dbOut, alIn, alOut, rkOut, acOut, histVars, detVars, worldVars>>

(***************************************************************************)
(* Harness of allocateCapital: lists of up to MaxOpportunities scored      *)
(* opportunities and a portfolio's available capital.                      *)
(***************************************************************************)

MaxOpportunities == 5

\* A strong opportunity (expected return 2.5 at risk 0.2, a 3% spread), the
\* same without a spread, a modest one (1.0 at risk 0.9) and one whose risk
\* exceeds its return.
ScoredSamples ==
    {[expectedReturn |-> 2500, risk |-> 200, sharpeRatio |-> 1500,
      timeHorizon |-> 30, spreadSize |-> 0],
     [expectedReturn |-> 2500, risk |-> 200, sharpeRatio |-> 2000,
      timeHorizon |-> 30, spreadSize |-> 300],
     [expectedReturn |-> 1000, risk |-> 900, sharpeRatio |-> 1000,
      timeHorizon |-> 120, spreadSize |-> 0],
     [expectedReturn |-> 500, risk |-> 800, sharpeRatio |-> 500,
      timeHorizon |-> 600, spreadSize |-> 60]}

\* The lists: the opportunity at position i has id i.
ScoredLists ==
    UNION {{[i \in 1..n |-> [id |-> i] @@ f[i]] : f \in [1..n -> ScoredSamples]} :
              n \in 0..MaxOpportunities}

AvailableCapitals == {-1000, 0, 400, 2000, 100000}

NoAllocateCall ==
    [kind |-> "none", opportunities |-> <<>>, availableCapital |-> 0,
     allocations |-> <<>>]

AllocateIdle == acOut = NoAllocateCall

AllocateCall ==
    /\ acOut.kind = "none"
    /\ \E opportunities \in ScoredLists, availableCapital \in AvailableCapitals :
         acOut' = [kind |-> "ok", opportunities |-> opportunities,
                   availableCapital |-> availableCapital,
                   allocations |-> AllocateCapital(opportunities, availableCapital)]
    /\ UNCHANGED <<dbIn, dbOut, alIn, alOut, rkOut, stOut, histVars, detVars, worldVars>>

AllocateReturn ==
    /\ acOut.kind = "ok"
    /\ acOut' = NoAllocateCall
    /\ UNCHANGED <<dbIn, dbOut, alIn, alOut, rkOut, stOut, histVars, detVars, worldVars>>

(***************************************************************************)
(* Harness of price discovery: GET /api/prices calls discoverPrices, GET   *)
(* /api/arbitrage/detect calls it and then detectArbitrage.  The Binance   *)
(* price of a symbol drifts up by 0.1 with every tick, so that every tick  *)
(* of a symbol has its own price; the Indian exchange quotes 30.0 above    *)
(* it, the NSE 5.0 above it.                                               *)
(***************************************************************************)

\* Ticks of the first symbol that arrive in a run of the harness, on top of
\* the history it starts with; ticks of the others; and how many ticks of
\* the first symbol have arrived when the detect route is last requested.
MaxArrivals == 2
MaxSideArrivals == 1
MaxDetectArrivals == 2

\* The history a run starts with: empty, or one short of full.
Prefilled(n) == [sym \in Symbols |-> IF sym = "BTCUSDT" THEN [i \in 1..n |-> 10000 + i]
                                      ELSE <<>>]
\* What the three sources may give for a symbol now.
FetchedFor(sym) ==
    LET price == 10001 + Len(arrivals[sym])
    IN [binance : {NoPrice, price}, indian : {NoPrice, price + 300},
        nse : {NoPrice, price + 50}]

\* The ticks of the first symbol that arrived since the start of the run.
NewArrivals(arr) ==
    LET n == Len(arr["BTCUSDT"])
    IN IF n >= MaxTicksKept - 1 THEN n - (MaxTicksKept - 1) ELSE n

NoDiscoverCall ==
    [kind |-> "none", symbols |-> <<>>, fetched |-> <<>>, results |-> <<>>,
     before |-> EmptyBuffer, opportunities |-> <<>>]

HistoryIdle ==
    /\ priceHistory = Prefilled(0)
    /\ arrivals = Prefilled(0)
    /\ dsOut = NoDiscoverCall

\* The calls of discoverPrices the harness makes, for one symbol or for the
\* two default symbols.
DiscoverCalls ==
    {c \in UNION {[symbols : {symbols},
                   fetched : {f \in [1..Len(symbols) -> UNION {FetchedFor(sym) : sym \in Symbols}] :
                                \A i \in 1..Len(symbols) : f[i] \in FetchedFor(symbols[i])}] :
                  symbols \in {<<"BTCUSDT">>, <<"BTCUSDT", "ETHUSDT">>}} :
        /\ NewArrivals(Arrived(c.symbols, c.fetched)) <= MaxArrivals
        /\ Len(Arrived(c.symbols, c.fetched)["ETHUSDT"]) <= MaxSideArrivals}

\* GET /api/prices
ApiPrices ==
    /\ dsOut.kind = "none"
    /\ \E c \in DiscoverCalls :
         \E r \in {DiscoverPrices([history |-> priceHistory, results |-> <<>>],
                                  c.symbols, c.fetched)} :
           /\ priceHistory' = r.history
           /\ arrivals' = Arrived(c.symbols, c.fetched)
           /\ dsOut' = [kind |-> "prices", symbols |-> c.symbols, fetched |-> c.fetched,
                        results |-> r.results, before |-> persistenceBuffer,
                        opportunities |-> <<>>]
    /\ UNCHANGED <<dbIn, dbOut, alIn, alOut, rkOut, stOut, acOut, detVars, worldVars>>

\* GET /api/arbitrage/detect with the default options
ApiDetect ==
    /\ dsOut.kind = "none"
    /\ \E c \in DiscoverCalls :
         \E r \in {DiscoverPrices([history |-> priceHistory, results |-> <<>>],
                                  c.symbols, c.fetched)} :
           \E d \in {DetectArbitrage(persistenceBuffer, r.results, RunnerDetectOptions, now)} :
             /\ NewArrivals(Arrived(c.symbols, c.fetched)) <= MaxDetectArrivals
             /\ priceHistory' = r.history
             /\ arrivals' = Arrived(c.symbols, c.fetched)
             /\ persistenceBuffer' = d.buffer
             /\ detSeen' = d.seenKeys
             /\ dsOut' = [kind |-> "detect", symbols |-> c.symbols, fetched |-> c.fetched,
                          results |-> r.results, before |-> persistenceBuffer,
                          opportunities |-> d.opportunities]
    /\ UNCHANGED <<dbIn, dbOut, alIn, alOut, rkOut, stOut, acOut, now, detOut, worldVars>>

\* Time passes between the requests, up to two poll intervals.
DiscoverTick ==
    /\ now < 2 * PollMs
    /\ Tick

\* The route has answered; the harness forgets the call.
DiscoverReturn ==
    /\ dsOut.kind # "none"
    /\ dsOut' = NoDiscoverCall
    /\ UNCHANGED <<dbIn, dbOut, alIn, alOut, rkOut, stOut, acOut, priceHistory, arrivals, detVars,
                   worldVars>>

(***************************************************************************)
(* Harness of assessRisk: POST /api/agents/risk calls it with the          *)
(* opportunity and the target quantity of the request body.                *)
(***************************************************************************)

\* spreadPct and volatilityPct in hundredths of a percent, around the
\* thresholds of the score
RiskSpreads == {30, 50, 100, 101, 200, 250}
RiskVolatilities == {5, 10, 50, 51, 100, 250}

\* What getIndianOrderBook gives: its request fails, or a book around the
\* Indian price with levels 0.1% or 0.5% apart that hold 0.10 up to 5.10 units.
RiskBooks ==
    {[ok |-> TRUE, asks |-> GetIndianOrderBook(10300, spreadBps, quantity)] :
        spreadBps \in {10, 50}, quantity \in {10, 200, 250, 510}}
    \cup {[ok |-> FALSE, asks |-> <<>>]}

NoRiskCall ==
    [kind |-> "none", spreadPct100 |-> 0, targetQty |-> 0, book |-> NoBook,
     result |-> NoRisk]

RiskIdle == rkOut = NoRiskCall

\* One call, with a targetQuantity of 1, 10 or 50 units.
RiskCall ==
    /\ rkOut.kind = "none"
    /\ \E spreadPct100 \in RiskSpreads, targetQty \in {100, 1000, 5000},
          volatilityPct100 \in RiskVolatilities, book \in RiskBooks :
         rkOut' = [kind |-> "ok", spreadPct100 |-> spreadPct100,
                   targetQty |-> targetQty, book |-> book,
                   result |-> AssessRisk([symbol |-> "BTCUSDT", spreadPct100 |-> spreadPct100,
                                          binancePrice |-> 10000, indianPrice |-> 10300],
                                         targetQty, volatilityPct100, book)]
    /\ UNCHANGED <<dbIn, dbOut, alIn, alOut, stOut, acOut, histVars, detVars, worldVars>>

RiskReturn ==
    /\ rkOut.kind = "ok"
    /\ rkOut' = NoRiskCall
    /\ UNCHANGED <<dbIn, dbOut, alIn, alOut, stOut, acOut, histVars, detVars, worldVars>>

(***************************************************************************)
(* Specifications                                                          *)
(***************************************************************************)

InitDebate ==
    /\ dbIn \in DebateInputs
    /\ dbOut = NoResult
    /\ AllocIdle
    /\ DetectIdle
    /\ StoreDefault
    /\ GuardianIdle
    /\ RiskIdle
    /\ StateIdle
    /\ AllocateIdle
    /\ HistoryIdle

NextDebate == DebateCall

SpecDebate == InitDebate /\ [][NextDebate]_vars

InitAlloc ==
    /\ alIn \in [riskScore : AllocRiskScores, riskShape : BOOLEAN,
                 usdtBalance : AllocBalances, maxTradeAmount : AllocMaxTrades]
    /\ alOut = NoResult
    /\ DebateIdle
    /\ DetectIdle
    /\ StoreDefault
    /\ GuardianIdle
    /\ RiskIdle
    /\ StateIdle
    /\ AllocateIdle
    /\ HistoryIdle

NextAlloc == AllocCall

SpecAlloc == InitAlloc /\ [][NextAlloc]_vars

InitDetect ==
    /\ DetectIdle
    /\ DebateIdle
    /\ AllocIdle
    /\ StoreDefault
    /\ GuardianIdle
    /\ RiskIdle
    /\ StateIdle
    /\ AllocateIdle
    /\ HistoryIdle

NextDetect == Tick \/ DetectCall \/ DetectReturn

SpecDetect == InitDetect /\ [][NextDetect]_vars

InitGuardian ==
    /\ StoreDefault
    /\ GuardianIdle
    /\ RiskIdle
    /\ StateIdle
    /\ AllocateIdle
    /\ HistoryIdle
    /\ DebateIdle
    /\ AllocIdle
    /\ DetectIdle

NextGuardian ==
    \/ ApiExecuteStart
    \/ ApiExecuteFinish
    \/ UpdateGuardianConfig
    \/ NextDay
    \/ GuardianCall

SpecGuardian == InitGuardian /\ [][NextGuardian]_vars

\* The guardian on a store read from a state file: the default portfolio, or
\* one that holds 60% of its value in positions.
LoadedPortfolios == {DefaultPortfolio, [cash |-> 40000, totalValue |-> 100000]}

InitGuardianLoaded ==
    /\ today = 0
    /\ portfolio \in LoadedPortfolios
    /\ auditLog = <<>>
    /\ executionLog = <<>>
    /\ guardianSettings = DefaultGuardianSettings
    /\ apiExec = NoApiExec
    /\ netProfits = 0
    /\ disk = DiskOk
    /\ ret = NoRet
    /\ RunnerIdle
    /\ StateFileCurrent
    /\ GuardianIdle
    /\ RiskIdle
    /\ StateIdle
    /\ AllocateIdle
    /\ HistoryIdle
    /\ DebateIdle
    /\ AllocIdle
    /\ DetectIdle

SpecGuardianLoaded == InitGuardianLoaded /\ [][NextGuardian]_vars

\* The execution engine behind its route, given opportunities of either
\* direction.
NextDirection ==
    \/ ApiExecuteStartOf(DirectedOpportunities)
    \/ ApiExecuteFinish
    \/ NextDay

SpecDirection == InitGuardian /\ [][NextDirection]_vars

\* The execution engine behind its route, on a disk that can fail.
InitExec ==
    /\ StoreDefault
    /\ GuardianIdle
    /\ RiskIdle
    /\ StateIdle
    /\ AllocateIdle
    /\ HistoryIdle
    /\ DebateIdle
    /\ AllocIdle
    /\ DetectIdle

NextExec ==
    \/ ApiExecuteStart
    \/ ApiExecuteFinish
    \/ DiskFault(DiskFaults)
    \/ DiskRepair

SpecExec == InitExec /\ [][NextExec]_vars

\* The audit log under the operations of its module, over two days.
InitAudit ==
    /\ StoreDefault
    /\ GuardianIdle
    /\ RiskIdle
    /\ StateIdle
    /\ AllocateIdle
    /\ HistoryIdle
    /\ DebateIdle
    /\ AllocIdle
    /\ DetectIdle

NextAudit == AuditAdd \/ AuditClear \/ NextDay

SpecAudit == InitAudit /\ [][NextAudit]_vars

\* The same store on a disk whose writes can fail.
NextStore ==
    \/ UpdatePortfolioCall
    \/ AuditAdd
    \/ DiskFault(DiskFaults)
    \/ DiskRepair

SpecStore == InitAudit /\ [][NextStore]_vars

InitAllocate ==
    /\ StoreDefault
    /\ GuardianIdle
    /\ RiskIdle
    /\ StateIdle
    /\ AllocateIdle
    /\ HistoryIdle
    /\ DebateIdle
    /\ AllocIdle
    /\ DetectIdle

NextAllocate == AllocateCall \/ AllocateReturn

SpecAllocate == InitAllocate /\ [][NextAllocate]_vars

InitState ==
    /\ StoreDefault
    /\ GuardianIdle
    /\ RiskIdle
    /\ StateIdle
    /\ AllocateIdle
    /\ HistoryIdle
    /\ DebateIdle
    /\ AllocIdle
    /\ DetectIdle

NextState == SaveAndLoad \/ StateReturn

SpecState == InitState /\ [][NextState]_vars

\* Price discovery behind its two routes, from an empty history or from one
\* that earlier requests have filled up to one tick short of its capacity.
InitDiscover ==
    /\ priceHistory \in {Prefilled(0), Prefilled(MaxTicksKept - 1)}
    /\ arrivals = priceHistory
    /\ dsOut = NoDiscoverCall
    /\ StoreDefault
    /\ GuardianIdle
    /\ RiskIdle
    /\ StateIdle
    /\ AllocateIdle
    /\ DebateIdle
    /\ AllocIdle
    /\ DetectIdle

NextDiscover == ApiPrices \/ ApiDetect \/ DiscoverReturn \/ DiscoverTick

SpecDiscover == InitDiscover /\ [][NextDiscover]_vars

InitRisk ==
    /\ StoreDefault
    /\ GuardianIdle
    /\ RiskIdle
    /\ StateIdle
    /\ AllocateIdle
    /\ HistoryIdle
    /\ DebateIdle
    /\ AllocIdle
    /\ DetectIdle

NextRisk == RiskCall \/ RiskReturn

SpecRisk == InitRisk /\ [][NextRisk]_vars

Init ==
    /\ StoreDefault
    /\ GuardianIdle
    /\ RiskIdle
    /\ StateIdle
    /\ AllocateIdle
    /\ HistoryIdle
    /\ DebateIdle
    /\ AllocIdle
    /\ DetectIdle

Next ==
    \/ StartRunner
    \/ StopRunner
    \/ TimerFires
    \/ RunnerTick
    \/ \E p \in PollIds : DiscoverDone(p)
    \/ \E p \in PollIds : RiskDone(p)
    \/ \E p \in PollIds : DebateDone(p)
    \/ \E p \in PollIds : OrderBookDone(p)
    \/ DiskFault(RunnerDiskFaults)
    \/ DiskRepair

Spec == Init /\ [][Next]_vars

\* The runner's polls overlapping: GET /api/arbitrage/detect has answered once
\* with one symbol's spread below the minimum (the opportunity of the other
\* is in the buffer with persistenceCount 1, each Binance price in the
\* history), and the Guardian allows one trade a day.
DetectedOnce(prices) ==
    [detected |-> DetectArbitrage(EmptyBuffer, prices, RunnerDetectOptions, 0),
     history |-> DiscoverPrices([history |-> Prefilled(0), results |-> <<>>],
                                [i \in DOMAIN prices |-> prices[i].symbol],
                                [i \in DOMAIN prices |->
                                    [binance |-> prices[i].binancePrice,
                                     indian |-> prices[i].indianPrice,
                                     nse |-> NoPrice]]).history]

InitDaily ==
    /\ today = 0
    /\ portfolio = DefaultPortfolio
    /\ auditLog = <<>>
    /\ executionLog = <<>>
    /\ guardianSettings = [DefaultGuardianSettings EXCEPT !.dailyMaxTrades = 1]
    /\ apiExec = NoApiExec
    /\ netProfits = 0
    /\ disk = DiskOk
    /\ ret = NoRet
    /\ RunnerIdle
    /\ StateFileCurrent
    /\ GuardianIdle
    /\ RiskIdle
    /\ StateIdle
    /\ AllocateIdle
    /\ DebateIdle
    /\ AllocIdle
    /\ now = 0
    /\ detOut = NoDetectCall
    /\ dsOut = NoDiscoverCall
    /\ \E prices \in {l \in RunnerPriceLists : BelowMinSpread(l[1], 50)} :
         \E d \in {DetectedOnce(prices)} :
           /\ persistenceBuffer = d.detected.buffer
           /\ detSeen = d.detected.seenKeys
           /\ priceHistory = d.history
           /\ arrivals = d.history

NextDaily ==
    \/ StartRunner
    \/ TimerFires
    \/ DiscoverTick
    \/ \E p \in PollIds : DiscoverDone(p)
    \/ \E p \in PollIds : RiskDone(p)
    \/ \E p \in PollIds : DebateDone(p)
    \/ \E p \in PollIds : OrderBookDone(p)

SpecDaily == InitDaily /\ [][NextDaily]_vars

\* The process ends and a new one begins: its first getState loads
\* data/state.json over DEFAULT_STATE (initState); the timer, the polls and
\* requests in flight, the detector's buffer and the price history, which
\* lived in the memory of the old process, are gone.
ProcessRestart ==
    /\ \E loaded \in {LoadState([runner |-> DefaultRunner,
                                  portfolio |-> DefaultPortfolio,
                                  auditLog |-> <<>>, executionLog |-> <<>>],
                                 stateFile)} :
         /\ runner' = loaded.runner
         /\ portfolio' = loaded.portfolio
         /\ auditLog' = loaded.auditLog
         /\ executionLog' = loaded.executionLog
    /\ runnerInterval' = FALSE
    /\ nextFire' = 0
    /\ polls' = [p \in PollIds |-> NoPoll]
    /\ apiExec' = NoApiExec
    /\ persistenceBuffer' = EmptyBuffer
    /\ detSeen' = {}
    /\ priceHistory' = Prefilled(0)
    /\ arrivals' = Prefilled(0)
    /\ gate' = NoGate
    /\ ret' = NoRet
    /\ gdOut' = NoGuardianCall
    /\ UNCHANGED <<dbIn, dbOut, alIn, alOut, rkOut, stOut, acOut, dsOut, now, detOut,
                   today, guardianSettings, netProfits, disk, stateFile>>

\* The runner across process restarts and failing writes.
NextProcess ==
    \/ StartRunner
    \/ StopRunner
    \/ TimerFires
    \/ RunnerTick
    \/ \E p \in PollIds : DiscoverDone(p)
    \/ \E p \in PollIds : RiskDone(p)
    \/ \E p \in PollIds : DebateDone(p)
    \/ \E p \in PollIds : OrderBookDone(p)
    \/ DiskFault(RunnerDiskFaults)
    \/ DiskRepair
    \/ ProcessRestart

SpecProcess == Init /\ [][NextProcess]_vars

\* The runner stopped and started again while polls are in flight.
MaxRestarts == 2

NextRestart ==
    \/ StartRunnerUpTo(MaxRestarts)
    \/ StopRunner
    \/ \E p \in PollIds : DiscoverDone(p)
    \/ \E p \in PollIds : RiskDone(p)
    \/ \E p \in PollIds : DebateDone(p)
    \/ \E p \in PollIds : OrderBookDone(p)

SpecRestart == InitDaily /\ [][NextRestart]_vars

\* The runner on a disk that takes every write, and requests of its status.
NextStatus ==
    \/ StartRunner
    \/ StopRunner
    \/ TimerFires
    \/ RunnerTick
    \/ \E p \in PollIds : DiscoverDone(p)
    \/ \E p \in PollIds : RiskDone(p)
    \/ \E p \in PollIds : DebateDone(p)
    \/ \E p \in PollIds : OrderBookDone(p)
    \/ GetRunnerStatus

SpecStatus == Init /\ [][NextStatus]_vars



(***************************************************************************)
(* Claims                                                                  *)
(***************************************************************************)

\* C3: every opportunity returned by detectArbitrage satisfies
\* lastSeenTs - firstSeenTs >= persistenceMs or persistenceCount >=
\* minPersistenceCount, for the options of that call.
C3_EmittedOpportunitiesPersisted ==
    detOut.kind = "ok"
    => \A i \in 1..Len(detOut.opportunities) :
          LET o == detOut.opportunities[i] IN
          \/ o.lastSeenTs - o.firstSeenTs >= detOut.opts.persistenceMs
          \/ o.persistenceCount >= detOut.opts.minPersistenceCount

\* A call that returns an opportunity confirmed by age alone (its count is
\* below minPersistenceCount), after an earlier call buffered it.
C3_Witness ==
    /\ detOut.kind = "ok"
    /\ \E i \in 1..Len(detOut.opportunities) :
          LET o == detOut.opportunities[i] IN
          /\ o.persistenceCount < detOut.opts.minPersistenceCount
          /\ o.persistenceCount >= 2
          /\ o.lastSeenTs - o.firstSeenTs >= detOut.opts.persistenceMs
          /\ o.lastSeenTs = detOut.at

\* C6: for every risk score in [0,100] and every portfolio with cash >= 0
\* and maxTradeAmount >= 0, the allocated amount is at most the cash and at
\* most maxTradeAmount.
C6_AllocWithinCashAndCap ==
    (alOut.kind = "ok" /\ alIn.usdtBalance >= 0 /\ alIn.maxTradeAmount >= 0
        /\ alIn.riskScore \in 0..100)
    => (alOut.allocatedUSDT <= alIn.usdtBalance
        /\ alOut.allocatedUSDT <= alIn.maxTradeAmount)

\* A call where the cap binds: the risk band's share of the cash is above
\* maxTradeAmount and the result is maxTradeAmount.
C6_Witness ==
    /\ alOut.kind = "ok" /\ ~alOut.caught
    /\ alIn.usdtBalance > 0 /\ alIn.maxTradeAmount > 0
    /\ PotentialAllocation(alIn.usdtBalance, alOut.allocationPct) > alIn.maxTradeAmount
    /\ alOut.allocatedUSDT = alIn.maxTradeAmount

\* C7: for a portfolio whose cash is zero or negative the allocated amount
\* is 0 for every risk score.
C7_ZeroAllocationForEmptyPortfolio ==
    (alOut.kind = "ok" /\ alIn.usdtBalance <= 0) => alOut.allocatedUSDT = 0

\* The median of three values: one of them, with at least two of the three
\* at or below it and at least two at or above it.
IsMedianOf(m, a, b, c) ==
    LET xs == <<a, b, c>> IN
    /\ \E i \in 1..3 : xs[i] = m
    /\ Cardinality({i \in 1..3 : xs[i] <= m}) >= 2
    /\ Cardinality({i \in 1..3 : xs[i] >= m}) >= 2

\* C8: on the provider path and on the fallback path, finalDecisionScore is
\* the median of [bullish.score, 1 - bearish.score, neutral.score].
C8_FinalScoreIsMedian ==
    dbOut.kind = "ok"
    => IsMedianOf(dbOut.finalDecisionScore,
                  dbOut.bullish, ScoreOne - dbOut.bearish, dbOut.neutral)

\* A provider-path result whose three values are pairwise different and whose
\* median is neither the bullish nor the neutral score.
C8_Witness ==
    /\ dbOut.kind = "ok" /\ dbOut.raw = "provider"
    /\ dbOut.bullish < ScoreOne - dbOut.bearish
    /\ ScoreOne - dbOut.bearish < dbOut.neutral
    /\ dbOut.finalDecisionScore = ScoreOne - dbOut.bearish

\* C9: the decision is 'execute' exactly when finalDecisionScore >= threshold,
\* hence whenever at least two of bullish, 1 - bearish, neutral are >= threshold.
C9_ExecuteIffScoreAtLeastThreshold ==
    dbOut.kind = "ok"
    => LET xs == <<dbOut.bullish, ScoreOne - dbOut.bearish, dbOut.neutral>> IN
       /\ (dbOut.decision = "execute") <=> (dbOut.finalDecisionScore >= dbIn.threshold)
       /\ dbOut.decision \in {"execute", "wait"}
       /\ (Cardinality({i \in 1..3 : xs[i] >= dbIn.threshold}) >= 2)
            => dbOut.decision = "execute"

\* A result on the boundary: the median equals the threshold, the third
\* value is below it, and the decision is 'execute'.
C9_Witness ==
    /\ dbOut.kind = "ok"
    /\ dbOut.finalDecisionScore = dbIn.threshold
    /\ dbOut.decision = "execute"
    /\ \E x \in {dbOut.bullish, ScoreOne - dbOut.bearish, dbOut.neutral} :
          x < dbIn.threshold

\* The provider is unavailable, its call fails, or its reply is malformed
\* (unparseable, or a perspective or its score missing).
ProviderFailed(in) ==
    \/ in.provider \in {"none", "error", "unparseable"}
    \/ \E p \in {"bullish", "bearish", "neutral"} :
          ~in.reply[p].present \/ ~in.reply[p].hasScore

\* C10: debateWithMedianConsensus never throws, and whenever the provider
\* failed the result is the deterministic fallback: bullish =
\* clamp01(min(1, spreadPct/3) - 0.3 * riskScore/100), bearish =
\* clamp01(riskScore/100), neutral = 0.5.  Stated for the calls whose
\* opportunity and risk carry their numeric fields, as every call of the
\* runner does.
C10_NeverThrowsFallbackOnFailure ==
    (dbOut # NoResult /\ dbIn.wellFormed)
    => /\ dbOut.kind = "ok"
       /\ ProviderFailed(dbIn)
            => /\ dbOut.bullish = FallbackBullish(dbIn.spreadPct100, dbIn.riskScore)
               /\ dbOut.bearish = FallbackBearish(dbIn.riskScore)
               /\ dbOut.neutral = FallbackNeutral

\* C4: whenever guardianCheck returns pass = true, the allocated amount
\* divided by the total value of the portfolio it read is at most
\* maxTradePctOfPortfolio, also when the total value has fallen to zero or
\* below.
C4_PassImpliesTradeWithinLimit ==
    (gdOut.kind = "ok" /\ gdOut.result.pass)
        => QuotientLE(gdOut.allocatedUSDT, portfolio.totalValue,
                      guardianSettings.maxTradePctOfPortfolio, 100)

\* C5: guardianCheck returns pass = false whenever the audit entries with
\* action 'execution_completed' dated today number at least dailyMaxTrades,
\* whatever the risk and the allocation are.
C5_DailyLimitVetoes ==
    (/\ gdOut.kind = "ok"
     /\ Cardinality({i \in DOMAIN auditLog :
                        /\ auditLog[i].action = "execution_completed"
                        /\ auditLog[i].day = today})
          >= guardianSettings.dailyMaxTrades)
        => ~gdOut.result.pass

C5_Witness ==
    /\ gdOut.kind = "ok"
    /\ gdOut.result.reason = "daily_limit"
    /\ today > 0
    /\ \E i \in DOMAIN auditLog :
         auditLog[i].action = "execution_completed" /\ auditLog[i].day < today
    /\ Cardinality({i \in DOMAIN auditLog :
                       /\ auditLog[i].action = "execution_completed"
                       /\ auditLog[i].day = today})
         = guardianSettings.dailyMaxTrades

\* C1: at most one runner poll (pollOnce) is in progress at any time; a poll
\* that the timer or startRunner would begin while an earlier one has not
\* finished does not run interleaved with it.
C1_AtMostOnePollInProgress ==
    Cardinality({p \in PollIds : polls[p].pc # "idle"}) <= 1

\* C2: a poll invokes the execution engine for an opportunity only if, for
\* that opportunity, guardianCheck passed and the debate decided 'execute';
\* after a veto or a 'wait' the poll does not execute it, executionsAttempted
\* is not incremented and the portfolio is not changed; the portfolio
\* changes only where an execution so begun ends.
C2_ExecutionOnlyThroughGate ==
    [][/\ \A p \in PollIds :
            /\ (polls[p].pc # "orderbook" /\ polls'[p].pc = "orderbook")
                 => /\ polls[p].pc = "debate"
                    /\ gate'.kind = "ok" /\ gate'.poll = p
                    /\ gate'.pass /\ gate'.decision = "execute"
            /\ (/\ polls[p].pc = "debate" /\ polls'[p] # polls[p]
                /\ ~(gate'.pass /\ gate'.decision = "execute"))
                 => /\ gate'.kind = "ok" /\ gate'.poll = p
                    /\ polls'[p].pc # "orderbook"
                    /\ runner'.executionsAttempted = runner.executionsAttempted
                    /\ portfolio' = portfolio
                    /\ executionLog' = executionLog
       /\ portfolio' # portfolio => \E p \in PollIds : polls[p].pc = "orderbook"
      ]_vars

C2_Witness ==
    /\ gate.kind = "ok"
    /\ ~gate.pass
    /\ gate.decision = "execute"
    /\ polls[gate.poll].pc # "orderbook"
    /\ runner.executionsAttempted = 1
    /\ runner.opportunitiesProcessed >= 2


(***************************************************************************)
(* Execution engine: partial fills, failures and the execution record      *)
(***************************************************************************)

\* The audit entries since the last buy_order_placed: those of the
\* execution that has just returned, one execution being in flight at a time.
LastBuy ==
    CHOOSE i \in 0..Len(auditLog) :
        /\ i > 0 => auditLog[i].action = "buy_order_placed"
        /\ \A j \in (i + 1)..Len(auditLog) : auditLog[j].action # "buy_order_placed"

EntriesOfLast(action) ==
    {i \in (LastBuy + 1)..Len(auditLog) : auditLog[i].action = action}

\* Every rollback_triggered entry of the execution that has just returned
\* is followed by its execution_completed entry.
RollbackBeforeCompleted ==
    \A i \in EntriesOfLast("rollback_triggered") :
        \E j \in EntriesOfLast("execution_completed") :
            i < j /\ auditLog[j].ref = ret.executionId

C11_WitnessNoRollback ==
    /\ ret.op = "execute" /\ ret.result = "success"
    /\ ret.partialFill
    /\ EntriesOfLast("rollback_triggered") = {}

\* C12: executeArbitrageWithPartialFills never propagates an error; when a
\* step throws, an execution_failed entry is written and a result with
\* success = false is returned.
C12_NeverPropagatesError ==
    ret.op = "execute" =>
        /\ ret.result \in {"success", "failure"}
        /\ ret.result = "failure" =>
              \E i \in DOMAIN auditLog :
                  /\ auditLog[i].action = "execution_failed"
                  /\ auditLog[i].ref = ret.executionId

\* An execution that failed and returned its failure: the order book's
\* request threw, or one write did.
C12_FailureReturned ==
    /\ ret.op = "execute" /\ ret.result = "failure"
    /\ \E i \in DOMAIN auditLog :
           auditLog[i].action = "execution_failed" /\ auditLog[i].ref = ret.executionId

\* C13: every ExecutionRecord created with status executing is terminal when
\* its execute call has returned, completed after a success and failed after
\* a failure; a record still executing belongs to the call in flight.
C13_RecordTerminalOnReturn ==
    /\ \A i \in DOMAIN executionLog :
           executionLog[i].status = "executing" =>
               (apiExec.pc = "orderbook" /\ executionLog[i].id = apiExec.ex.executionId)
    /\ ret.op = "execute" =>
           \A i \in DOMAIN executionLog :
               executionLog[i].id = ret.executionId =>
                   executionLog[i].status =
                       (IF ret.result = "success" THEN "completed" ELSE "failed")

(***************************************************************************)
(* Runner: start and stop, the counters, and failures within a poll        *)
(***************************************************************************)

\* C14: startRunner while isRunning returns false and changes nothing
\* (counters, startTime, timer, audit log), stopRunner while not isRunning
\* returns false and changes nothing, and otherwise each returns true and
\* flips isRunning.
C14_StartStopGuarded ==
    [][/\ StartRunner =>
            IF runner.isRunning
            THEN /\ ret'.result = "false"
                 /\ UNCHANGED <<runner, runnerInterval, nextFire, auditLog, polls>>
            ELSE ret'.result = "true" /\ runner'.isRunning
       /\ StopRunner =>
            IF ~runner.isRunning
            THEN /\ ret'.result = "false"
                 /\ UNCHANGED <<runner, runnerInterval, nextFire, auditLog, polls>>
            ELSE ret'.result = "true" /\ ~runner'.isRunning]_vars

\* The counters of RunnerState that a stop is to freeze.
Counters ==
    <<runner.pollCount, runner.opportunitiesProcessed, runner.executionsAttempted,
      runner.executionsSuccessful, runner.lastPollTime>>

\* C15: the counters are frozen on stop: after stopRunner has returned true
\* and until the next start, pollCount, opportunitiesProcessed,
\* executionsAttempted, executionsSuccessful and lastPollTime do not change.
\* Stated of the first step of the program that follows the stop, time
\* passing and disk faults aside.
C15_CountersFrozenOnStop ==
    [][(ret = Returned("stop", "true") /\ ~StartRunner) => UNCHANGED Counters]_vars

\* C15 amended: a successful start resets the counters and counts its
\* immediate first poll; while the runner is stopped pollCount and
\* lastPollTime do not change, and the other counters change only by the
\* steps of polls that were in flight at the stop: once no poll is in
\* flight, none of the counters changes until the next start.
C15_CountersFrozenOnceIdle ==
    [][/\ (StartRunner /\ ret'.result = "true") =>
            /\ runner'.pollCount = 1
            /\ runner'.opportunitiesProcessed = 0
            /\ runner'.executionsAttempted = 0
            /\ runner'.executionsSuccessful = 0
       /\ (~runner.isRunning /\ ~StartRunner) =>
            /\ UNCHANGED <<runner.pollCount, runner.lastPollTime>>
            /\ IdlePolls = PollIds => UNCHANGED Counters]_vars

\* The runner stopped with a poll in flight that has gone on counting, and
\* no poll is in flight any more.
C15_Witness ==
    /\ ~runner.isRunning
    /\ Stopped > 0
    /\ IdlePolls = PollIds
    /\ runner.pollCount = 2
    /\ runner.opportunitiesProcessed >= 1
    /\ \E i, j \in DOMAIN auditLog :
           /\ i < j
           /\ auditLog[i].action = "runner_stopped"
           /\ auditLog[j].action = "autonomous_execution_initiated"

C17_FailureIsolatedPerOpportunity ==
    [][\A p \in PollIds :
           Len(polls[p].opportunities) >= 2 => polls'[p].pc # "idle"]_vars

(***************************************************************************)
(* Detector: minimum spread, persistence count and stale keys              *)
(***************************************************************************)

\* The step is a call of detectArbitrage: detOut' holds its arguments and
\* its result, persistenceBuffer and persistenceBuffer' the buffer before
\* and after it.
DetectStep == detOut.kind = "none" /\ detOut'.kind = "ok"

\* An input pair with both prices, its spread against the minimum, and the
\* key it has.
Quoted(p) == p.binancePrice > 0 /\ p.indianPrice > 0
SpreadBelow(p, opts) ==
    Abs(p.indianPrice - p.binancePrice) * 10000 < opts.minSpreadPct100 * p.binancePrice
PairKey(p) ==
    OpportunityKey(p.symbol, IF p.indianPrice > p.binancePrice
                             THEN "buy-binance-sell-india"
                             ELSE "buy-india-sell-binance")
Qualifies(p, opts) == Quoted(p) /\ ~SpreadBelow(p, opts)

\* The entries of the call's input that qualify for key k.
QualifyingFor(k, prices, opts) ==
    {i \in DOMAIN prices : Qualifies(prices[i], opts) /\ PairKey(prices[i]) = k}

EmittedFor(k, opportunities) ==
    {j \in DOMAIN opportunities :
        OpportunityKey(opportunities[j].symbol, opportunities[j].action) = k}

\* C18: for every input pair with |spreadPct| < minSpreadPct the call neither
\* creates nor updates a buffer entry for the pair's key nor emits an
\* opportunity for it: the call gives what it gives without these pairs, and
\* a key for which only such pairs came is left as it was or purged, and
\* none of the returned opportunities has it.
C18_BelowMinSpreadNotBuffered ==
    [][DetectStep =>
         LET prices == detOut'.prices
             opts == detOut'.opts
             without == SelectSeq(prices,
                            LAMBDA p : ~(Quoted(p) /\ SpreadBelow(p, opts)))
             r == DetectArbitrage(persistenceBuffer, without, opts, now)
         IN /\ persistenceBuffer' = r.buffer
            /\ detOut'.opportunities = r.opportunities
            /\ \A i \in DOMAIN prices :
                 (/\ Quoted(prices[i])
                  /\ SpreadBelow(prices[i], opts)
                  /\ QualifyingFor(PairKey(prices[i]), prices, opts) = {}) =>
                    /\ persistenceBuffer'[PairKey(prices[i])]
                         \in {persistenceBuffer[PairKey(prices[i])], NoPersistence}
                    /\ EmittedFor(PairKey(prices[i]), detOut'.opportunities) = {}]_vars

\* A call with a pair below the minimum spread whose key is in the buffer
\* from an earlier call, with a count that would have let it be emitted.
C18_Witness ==
    /\ detOut.kind = "ok"
    /\ \E i \in DOMAIN detOut.prices :
         /\ Quoted(detOut.prices[i])
         /\ SpreadBelow(detOut.prices[i], detOut.opts)
         /\ QualifyingFor(PairKey(detOut.prices[i]), detOut.prices, detOut.opts) = {}
         /\ persistenceBuffer[PairKey(detOut.prices[i])].present
         /\ persistenceBuffer[PairKey(detOut.prices[i])].lastSeenTs < detOut.at
         /\ persistenceBuffer[PairKey(detOut.prices[i])].persistenceCount + 1
              >= detOut.opts.minPersistenceCount

C20_StaleKeysPurged ==
    [][DetectStep =>
         \A k \in Keys :
             persistenceBuffer[k].present =>
                 IF QualifyingFor(k, detOut'.prices, detOut'.opts) # {}
                 THEN persistenceBuffer'[k].present
                 ELSE IF now - persistenceBuffer[k].lastSeenTs > 10000
                      THEN ~persistenceBuffer'[k].present
                      ELSE persistenceBuffer'[k] = persistenceBuffer[k]]_vars

\* A call that purged a stale key and kept another key, one it observed or
\* one last seen exactly 10000 ms before.
C20_Witness ==
    /\ detOut.kind = "ok"
    /\ \E k \in detOut.staleKeys : ~persistenceBuffer[k].present
    /\ \E k \in Keys :
         /\ persistenceBuffer[k].present
         /\ \/ persistenceBuffer[k].lastSeenTs = detOut.at
            \/ persistenceBuffer[k].lastSeenTs = detOut.at - 10000

(***************************************************************************)
(* Claims about assessRisk                                                 *)
(***************************************************************************)

\* C21: assessRisk never throws: when the order book request behind the
\* liquidity estimate fails, it returns the fail-safe result, with riskScore
\* 80 and nothing fillable; every call returns a result.
C21_FailSafeOnLookupFailure ==
    rkOut.kind = "ok" =>
        /\ rkOut.result.riskScore \in 0..100
        /\ ~rkOut.book.ok =>
             /\ rkOut.result.failSafe
             /\ rkOut.result.riskScore = 80
             /\ rkOut.result.fillableQty = 0

\* A call whose order book request failed has returned.
C21_Witness ==
    /\ rkOut.kind = "ok"
    /\ ~rkOut.book.ok
    /\ rkOut.result.riskScore = 80

\* The factors of the score of the call in rkOut
RiskSlipGrid == {0, 10, 20, 21, 50, 51, 100, 105}
RiskFillGrid == {0, 40, 49, 50, 79, 80, 99, 100, 120}

\* C22: the riskScore is monotonic in each factor with the others as they
\* were in the call: a higher volatilityPct or a higher slippage never gives
\* a lower score, a higher fill ratio or a higher spreadPct never a higher one.
C22_RiskScoreMonotonic ==
    (rkOut.kind = "ok" /\ ~rkOut.result.failSafe) =>
        LET r == rkOut.result
            sp == rkOut.spreadPct100
            t == rkOut.targetQty
        IN /\ \A v \in RiskVolatilities :
                v >= r.volatilityPct100 =>
                    RiskScore(sp, v, r.fillableQty, t, r.slippage[1], r.slippage[2])
                        >= r.riskScore
           /\ \A slip \in RiskSlipGrid :
                QuotientGE(slip, 10000, r.slippage[1], r.slippage[2]) =>
                    RiskScore(sp, r.volatilityPct100, r.fillableQty, t, slip, 10000)
                        >= r.riskScore
           /\ \A fill \in RiskFillGrid :
                QuotientGE(fill, 100, r.fillableQty, t) =>
                    RiskScore(sp, r.volatilityPct100, fill, 100, r.slippage[1], r.slippage[2])
                        <= r.riskScore
           /\ \A spread \in RiskSpreads :
                spread >= sp =>
                    RiskScore(spread, r.volatilityPct100, r.fillableQty, t,
                              r.slippage[1], r.slippage[2]) <= r.riskScore

\* A call of a stable market, a tight spread and a thin book, whose score a
\* higher volatility raises and a wider spread lowers.
C22_Witness ==
    /\ rkOut.kind = "ok"
    /\ ~rkOut.result.failSafe
    /\ rkOut.result.volatilityPct100 < 10
    /\ rkOut.spreadPct100 < 50
    /\ rkOut.result.fillableQty < rkOut.targetQty
    /\ RiskScore(rkOut.spreadPct100, 250, rkOut.result.fillableQty, rkOut.targetQty,
                 rkOut.result.slippage[1], rkOut.result.slippage[2])
           > rkOut.result.riskScore
    /\ RiskScore(250, rkOut.result.volatilityPct100, rkOut.result.fillableQty,
                 rkOut.targetQty, rkOut.result.slippage[1], rkOut.result.slippage[2])
           < rkOut.result.riskScore

(***************************************************************************)
(* Claims about price discovery                                            *)
(***************************************************************************)

\* The last n elements of a sequence (all of them when it is shorter).
LastOf(seq, n) ==
    IF Len(seq) <= n THEN seq ELSE SubSeq(seq, Len(seq) - n + 1, Len(seq))

\* C23: after any sequence of discovery calls, the price history of every
\* symbol holds at most 100 ticks, and they are the most recent Binance
\* prices of the symbol in arrival order: the 101st tick evicts the oldest.
C23_HistoryIsLast100 ==
    \A sym \in Symbols :
        /\ Len(priceHistory[sym]) <= 100
        /\ priceHistory[sym] = LastOf(arrivals[sym], 100)

\* The 101st tick of a symbol has arrived and the first one is gone.
C23_Witness ==
    /\ Len(arrivals["BTCUSDT"]) = 101
    /\ Len(priceHistory["BTCUSDT"]) = 100
    /\ priceHistory["BTCUSDT"][1] = arrivals["BTCUSDT"][2]
    /\ priceHistory["BTCUSDT"][100] = arrivals["BTCUSDT"][101]

\* The results of the call in dsOut whose Binance or Indian price is missing.
Unquoted(i) == dsOut.results[i].binancePrice = 0 \/ dsOut.results[i].indianPrice = 0

\* C24: discoverPrices returns one result for every requested symbol, in the
\* order of the request, whatever sources failed; a failed source gives a
\* price of zero for that source only; and a symbol whose Binance or Indian
\* price is missing creates no buffer entry and is not emitted by the
\* detection that follows.
C24_OneResultPerSymbol ==
    dsOut.kind # "none" =>
        /\ Len(dsOut.results) = Len(dsOut.symbols)
        /\ \A i \in 1..Len(dsOut.symbols) :
             /\ dsOut.results[i].symbol = dsOut.symbols[i]
             /\ dsOut.results[i].binancePrice =
                  (IF dsOut.fetched[i].binance = NoPrice THEN 0
                   ELSE dsOut.fetched[i].binance)
             /\ dsOut.results[i].indianPrice =
                  (IF dsOut.fetched[i].indian = NoPrice THEN 0
                   ELSE dsOut.fetched[i].indian)
             /\ dsOut.results[i].nsePrice =
                  (IF dsOut.fetched[i].nse = NoPrice THEN 0 ELSE dsOut.fetched[i].nse)
             /\ (dsOut.kind = "detect" /\ Unquoted(i)) =>
                  /\ \A action \in Actions :
                       LET k == OpportunityKey(dsOut.symbols[i], action)
                       IN /\ dsOut.before[k] = NoPersistence
                               => persistenceBuffer[k] = NoPersistence
                          /\ persistenceBuffer[k] \in {dsOut.before[k], NoPersistence}
                  /\ \A j \in 1..Len(dsOut.opportunities) :
                       dsOut.opportunities[j].symbol # dsOut.symbols[i]

\* A detection request for two symbols: the first is emitted, the Indian
\* exchange failed for the second, which has a result with that price zero,
\* its other prices as fetched, and no buffer entry.
C24_Witness ==
    /\ dsOut.kind = "detect"
    /\ Len(dsOut.symbols) = 2
    /\ Len(dsOut.opportunities) = 1
    /\ dsOut.opportunities[1].symbol = dsOut.symbols[1]
    /\ dsOut.fetched[2].indian = NoPrice
    /\ dsOut.fetched[2].binance # NoPrice
    /\ dsOut.results[2].indianPrice = 0
    /\ dsOut.results[2].binancePrice > 0
    /\ \A action \in Actions :
         persistenceBuffer[OpportunityKey(dsOut.symbols[2], action)] = NoPersistence

(***************************************************************************)
(* Claims about the audit log                                              *)
(***************************************************************************)

\* C25: the audit log is append-only: whatever operation of the audit-log
\* module runs, every entry written earlier is still there, unchanged and
\* at its position, so the length of the log never decreases.
C25_AuditLogAppendOnly ==
    [][/\ Len(auditLog') >= Len(auditLog)
       /\ SubSeq(auditLog', 1, Len(auditLog)) = auditLog]_vars

(***************************************************************************)
(* Claims about the runner's audit trail and status                        *)
(***************************************************************************)

\* C26: when the Guardian vetoes an opportunity or the debate decides
\* 'wait', the poll appends an audit entry recording that outcome before it
\* moves to the next opportunity.
C26_VetoAudited ==
    [][\A p \in PollIds :
          (/\ polls[p].pc = "debate" /\ polls'[p] # polls[p]
           /\ gate'.kind = "ok" /\ gate'.poll = p
           /\ ~(gate'.pass /\ gate'.decision = "execute"))
            => /\ Len(auditLog') > Len(auditLog)
               /\ auditLog'[Len(auditLog) + 1].action
                    \notin {"runner_poll_error", "runner_started", "runner_stopped"}
      ]_vars

C28_PortfolioRoundTrip ==
    stOut.kind = "ok" =>
        /\ "portfolio" \in DOMAIN stOut.loaded
        /\ stOut.loaded.portfolio.cash = stOut.saved.portfolio.cash
        /\ stOut.loaded.portfolio.positions = stOut.saved.portfolio.positions
        /\ stOut.loaded.portfolio.totalValue = stOut.saved.portfolio.totalValue
        /\ stOut.loaded.portfolio.lastUpdate = stOut.saved.portfolio.lastUpdate

(***************************************************************************)
(* C29: allocateCapital's limits                                           *)
(***************************************************************************)

RECURSIVE TotalAllocated(_)
TotalAllocated(allocations) ==
    IF allocations = <<>> THEN 0
    ELSE Head(allocations).allocatedCapital + TotalAllocated(Tail(allocations))

\* C29: for every list of opportunities and every available capital,
\* allocateCapital returns allocations that each hold at least the minimum
\* ticket of 100 and at most 20% of the available capital and that sum to at
\* most 80% of it; no opportunity is funded twice or partially below the
\* minimum (it is left out instead), and the list is empty when the available
\* capital is zero or negative (where nothing is allocated there is no sum to
\* bound: 80% of a negative capital is below the empty list's total of 0).
C29_AllocationLimits ==
    acOut.kind = "ok" =>
        /\ \A i \in 1..Len(acOut.allocations) :
              /\ acOut.allocations[i].allocatedCapital >= 100
              /\ acOut.allocations[i].allocatedCapital * 100 <= 20 * acOut.availableCapital
              /\ acOut.allocations[i].opportunityId \in 1..Len(acOut.opportunities)
              /\ \A j \in 1..Len(acOut.allocations) :
                    acOut.allocations[j].opportunityId = acOut.allocations[i].opportunityId
                        => j = i
        /\ acOut.allocations # <<>> =>
              TotalAllocated(acOut.allocations) * 100 <= 80 * acOut.availableCapital
        /\ acOut.availableCapital <= 0 => acOut.allocations = <<>>

\* Five opportunities of which several are funded, one of them with the full
\* 20%, and at least one is left out while less than the minimum ticket
\* remains under the 80% limit.
C29_Witness ==
    /\ acOut.kind = "ok"
    /\ Len(acOut.opportunities) = MaxOpportunities
    /\ Len(acOut.allocations) >= 2
    /\ Len(acOut.allocations) < Len(acOut.opportunities)
    /\ TotalAllocated(acOut.allocations) * 100 < 80 * acOut.availableCapital
    /\ 80 * acOut.availableCapital - TotalAllocated(acOut.allocations) * 100 < 100 * 100
    /\ \E i \in 1..Len(acOut.allocations) :
          acOut.allocations[i].allocatedCapital * 100 = 20 * acOut.availableCapital

(***************************************************************************)
(* C30: the order of guardianCheck's hard limits                           *)
(***************************************************************************)

\* The four hard limits, on the call gdOut holds and the store it read.
TradeSizeViolated ==
    QuotientGT(gdOut.allocatedUSDT, portfolio.totalValue,
               guardianSettings.maxTradePctOfPortfolio, 100)
DailyCountViolated ==
    Cardinality({i \in DOMAIN auditLog :
                    /\ auditLog[i].action = "execution_completed"
                    /\ auditLog[i].day = today})
        >= guardianSettings.dailyMaxTrades
VolatilityViolated ==
    guardianSettings.highVolatility /\ gdOut.risk.volatilityPct100 > 200
RiskScoreViolated == gdOut.risk.riskScore > 75
ExposureBreached ==
    QuotientGT(portfolio.totalValue - portfolio.cash, portfolio.totalValue,
               guardianSettings.globalMaxExposurePct, 100)

\* C30: guardianCheck returns the reason of the first violated hard limit in
\* the order trade size, daily trade count, volatility, risk score; it returns
\* pass = true exactly when none of the four is violated; and a breach of the
\* exposure limit changes neither: where the four hold it passes, with a
\* warning.
C30_FirstFailureInOrder ==
    gdOut.kind = "ok" =>
        /\ gdOut.result.pass <=>
              ~(TradeSizeViolated \/ DailyCountViolated \/ VolatilityViolated
                    \/ RiskScoreViolated)
        /\ gdOut.result.reason = "trade_size" <=> TradeSizeViolated
        /\ gdOut.result.reason = "daily_limit" <=>
              (~TradeSizeViolated /\ DailyCountViolated)
        /\ gdOut.result.reason = "volatility" <=>
              (~TradeSizeViolated /\ ~DailyCountViolated /\ VolatilityViolated)
        /\ gdOut.result.reason = "risk_score" <=>
              (/\ ~TradeSizeViolated
               /\ ~DailyCountViolated
               /\ ~VolatilityViolated
               /\ RiskScoreViolated)
        /\ gdOut.result.pass => (gdOut.result.warning <=> ExposureBreached)

\* A call that violates the volatility and the risk-score limits on a
\* portfolio over its exposure limit: the reason is the volatility.
C30_Witness ==
    /\ gdOut.kind = "ok"
    /\ VolatilityViolated
    /\ RiskScoreViolated
    /\ ExposureBreached
    /\ gdOut.result.reason = "volatility"
    /\ gdOut.result.warning
    /\ auditLog # <<>>

(***************************************************************************)
(* Claims about failed writes, overlapping polls and restarts              *)
(***************************************************************************)

\* C31: when the write of a state update fails, the prior state is kept:
\* data/state.json still holds the document of the last save that succeeded,
\* and the state in memory, which getState returns, still holds the value
\* the updated key had before the update.
C31_FailedWriteKeepsState ==
    [][(UpdatePortfolioCall /\ disk.left = 0)
          => (stateFile' = stateFile /\ portfolio' = portfolio)]_vars

\* The audit entries 'execution_completed' of a day.
CompletedOn(day) ==
    {i \in DOMAIN auditLog :
        auditLog[i].action = "execution_completed" /\ auditLog[i].day = day}

\* C32: with a fixed GuardianConfig and under any interleaving of the runner's
\* polls, the executions the runner completes on one calendar day never number
\* more than dailyMaxTrades.
C32_DailyLimitHolds ==
    \A day \in 0..MaxDays :
        Cardinality(CompletedOn(day)) <= guardianSettings.dailyMaxTrades

\* The exchanges an opportunity's action names.
BuySide(action) ==
    IF action = "buy-binance-sell-india" THEN "binance_testnet" ELSE "indian_mock"
SellSide(action) ==
    IF action = "buy-binance-sell-india" THEN "indian_mock" ELSE "binance_testnet"

\* C33: an execution follows the direction of its opportunity's action: the
\* buy leg is on the exchange the action names as the buy side and is priced
\* at the cheaper source's price (plus at most 0.1% of buy slippage), the sell
\* leg on the exchange named as the sell side, for both actions.
C33_ExecutionFollowsAction ==
    apiExec.pc = "orderbook" =>
        LET ex == apiExec.ex
            cheaper == Min(ex.opportunity.binancePrice, ex.opportunity.indianPrice)
        IN /\ ex.buyPrice * 1000 <= cheaper * 1001
           /\ \A i \in DOMAIN executionLog :
                 executionLog[i].id = ex.executionId =>
                     /\ executionLog[i].buyExchange = BuySide(ex.opportunity.action)
                     /\ executionLog[i].sellExchange = SellSide(ex.opportunity.action)

\* C34: after any sequence and interleaving of executions, whether of
\* overlapping polls or of direct execute calls, portfolio.cash is its initial
\* value plus the sum of netProfit over the executions that returned
\* success = true, and so is totalValue.
C34_CashIsSumOfProfits ==
    /\ portfolio.cash = DefaultCash + netProfits
    /\ portfolio.totalValue = DefaultCash + netProfits

\* C35: in every reachable state executionsSuccessful <= executionsAttempted
\* <= opportunitiesProcessed, also when the runner is stopped and started
\* again while a poll of the previous run is in flight.
C35_CountersOrdered ==
    /\ runner.executionsSuccessful <= runner.executionsAttempted
    /\ runner.executionsAttempted <= runner.opportunitiesProcessed

\* C36: RunnerState.isRunning is true exactly when a poll timer is scheduled,
\* after any sequence of start, stop, failed writes of the state store and
\* process restarts.
C36_RunningIffTimer == runner.isRunning <=> runnerInterval

(***************************************************************************)
(* Claims about the detector's buffer within a call and after a gap        *)
(***************************************************************************)

\* C37: in one detectArbitrage call the persistenceCount of each key goes up
\* by at most one and the key is emitted at most once, also when the input
\* lists the same symbol more than once; a key first seen in the call is not
\* emitted by it when minPersistenceCount >= 2.
C37_OncePerKeyPerCall ==
    [][DetectStep =>
         \A k \in Keys :
             LET before == IF persistenceBuffer[k].present
                           THEN persistenceBuffer[k].persistenceCount ELSE 0
             IN /\ persistenceBuffer'[k].present =>
                      persistenceBuffer'[k].persistenceCount <= before + 1
                /\ Cardinality(EmittedFor(k, detOut'.opportunities)) <= 1
                /\ (~persistenceBuffer[k].present
                      /\ detOut'.opts.minPersistenceCount >= 2)
                      => EmittedFor(k, detOut'.opportunities) = {}]_vars

\* C38: a buffered key that has gone unobserved for longer than the stale
\* timeout is not resumed: when a call next observes it after such a gap, its
\* entry is a new one (persistenceCount 1, firstSeenTs the time of the call),
\* and with minPersistenceCount >= 2 the call does not emit it.
C38_StaleNeverResumed ==
    [][DetectStep =>
         \A k \in Keys :
             (/\ persistenceBuffer[k].present
              /\ now - persistenceBuffer[k].lastSeenTs > StaleTimeoutMs
              /\ Cardinality(QualifyingFor(k, detOut'.prices, detOut'.opts)) = 1)
                 => /\ persistenceBuffer'[k].persistenceCount = 1
                    /\ persistenceBuffer'[k].firstSeenTs = now
                    /\ detOut'.opts.minPersistenceCount >= 2
                          => EmittedFor(k, detOut'.opportunities) = {}]_vars

(***************************************************************************)
(* The runner while the Guardian's configuration is changed                *)
(***************************************************************************)
NextConfigured ==
    \/ StartRunner
    \/ TimerFires
    \/ RunnerTick
    \/ \E p \in PollIds : DiscoverDone(p)
    \/ \E p \in PollIds : RiskDone(p)
    \/ \E p \in PollIds : DebateDone(p)
    \/ \E p \in PollIds : OrderBookDone(p)
    \/ UpdateGuardianConfig

SpecConfigured == Init /\ [][NextConfigured]_vars

\* C39: when assessRisk returned its fail-safe result for an opportunity, the
\* step of the poll that follows the debate has the Guardian veto it under
\* whatever configuration is in force: no execution is counted as attempted,
\* none begins, no execution record is written and the portfolio stays.
C39_FailSafeNeverExecuted ==
    [][\A p \in PollIds :
          (DebateDone(p) /\ polls[p].risk.failSafe)
             => /\ gate'.poll = p /\ ~gate'.pass
                /\ polls'[p].pc # "orderbook"
                /\ runner'.executionsAttempted = runner.executionsAttempted
                /\ executionLog' = executionLog
                /\ portfolio' = portfolio]_vars

\* The Guardian has vetoed an opportunity whose risk was the fail-safe
\* result, under a configuration other than the default one, after a debate
\* that decided to execute.
C39_Witness ==
    /\ gate.kind = "ok"
    /\ ~gate.pass
    /\ gate.decision = "execute"
    /\ guardianSettings # DefaultGuardianSettings
    /\ gate.failSafe

\* C40: an execution that returns success = false leaves the portfolio as it
\* was before the call's step: cash and totalValue are unchanged, whichever
\* step of the execution failed.
C40_FailureLeavesPortfolio ==
    [][((ApiExecuteStart \/ ApiExecuteFinish)
           /\ ret'.op = "execute" /\ ret'.result = "failure")
          => (portfolio'.cash = portfolio.cash
              /\ portfolio'.totalValue = portfolio.totalValue)]_vars

====
